---- MODULE Spec2Model ----
(***************************************************************************)
(* Snapshot export / import engine of pwnflow:                             *)
(*   services/export_service.py  (ExportService)                           *)
(*   services/import_service.py  (ImportService)                           *)
(*   api/v1/projects.py, api/v1/templates.py (the endpoints on top)        *)
(* The graph store (Neo4j) is modelled as append-only collections of       *)
(* entity instances; an instance carries its `id` property and the root    *)
(* (Project / Template) it hangs under.  Two instances may carry the same  *)
(* `id` property: Neo4j puts no uniqueness constraint on it.               *)
(***************************************************************************)
EXTENDS Integers, Sequences, FiniteSets, TLC

VARIABLES
    store,      \* the graph store
    before,     \* the graph store as it was when the last operation started
    uuid,       \* number of uuid4() / generated passwords drawn so far
    exported,   \* the last container written by an export, with what the call returned
    result,     \* what the last operation returned or raised
    ops,        \* number of operations run
    legacy,     \* the legacy import run: its background task, progress queue and event stream
    imports     \* the container imports in progress, one per slot

vars == <<store, before, uuid, exported, result, ops, legacy, imports>>

\* ------------------------------------------------------------------ bounds

MaxOps == 2         \* operations in one run on the program's own exports
MaxCraftOps == 1    \* operations in one run on hand-made files
MaxStoreFailures == 1   \* failures of the graph store in one legacy import
MaxHeartbeats == 1      \* heartbeats of the event stream while the task is running
MaxFailAt == 10     \* the graph store fails on one of its first MaxFailAt calls of an import

\* ------------------------------------------------------------- value sets

Users == {1, 2}             \* user 1 owns the initial data, user 2 owns nothing
NoId == 0                   \* an absent / None / empty identifier (falsy in Python)
None == << -1 >>            \* Python None for Optional[str] password
NUL == 0                    \* the character "\x00" inside a password
Passwords == {<<>>, <<1>>, <<1, NUL>>, <<2>>}   \* str passwords, <<>> is ""
OptPasswords == Passwords \cup {None}
FirstUuid == 100            \* uuid4 values are 100, 101, ...: never an identifier met before
Methods == {"none", "password", "generated"}

\* ---------------------------------------------------------------- helpers

Range(s) == {s[i] : i \in DOMAIN s}

RECURSIVE Repeat(_, _)
Repeat(x, k) == IF k <= 0 THEN <<>> ELSE <<x>> \o Repeat(x, k - 1)

\* Python truthiness of an Optional[str] password: `not password`
NotPassword(password) == password = None \/ password = <<>>

\* ------------------------------------------------------- crypto primitive

\* HMAC-SHA256 right-pads a key shorter than its 64-byte block with zero
\* bytes, so the HMAC key of PBKDF2 is the password without its trailing
\* "\x00" characters (passwords here are shorter than one block).
RECURSIVE HmacKey(_)
HmacKey(password) ==
    IF password # <<>> /\ password[Len(password)] = NUL
    THEN HmacKey(SubSeq(password, 1, Len(password) - 1))
    ELSE password

\* PBKDF2HMAC(SHA256, length=32, salt, iterations=100_000).derive(password.encode())
derive_key(password, salt) == <<HmacKey(password), salt>>

\* AESGCM(key).encrypt(nonce, data, None): a box only (key, nonce) opens
AESGCM_encrypt(key, nonce, data) == [key |-> key, nonce |-> nonce, plaintext |-> data]

\* AESGCM(key).decrypt(nonce, ciphertext, None): InvalidTag unless key and nonce match
AESGCM_decrypt(key, nonce, ciphertext) ==
    IF ciphertext.key = key /\ ciphertext.nonce = nonce
    THEN [ok |-> TRUE, plaintext |-> <<ciphertext.plaintext>>]
    ELSE [ok |-> FALSE, plaintext |-> <<>>]

\* ExportService.encrypt_data, with the salt and nonce it drew
encrypt_data(data, password, salt, nonce) ==
    [salt |-> salt, nonce |-> nonce,
     ciphertext |-> AESGCM_encrypt(derive_key(password, salt), nonce, data)]

\* ExportService.decrypt_data: [ok |-> FALSE] stands for the InvalidTag exception
decrypt_data(ciphertext, password, salt, nonce) ==
    AESGCM_decrypt(derive_key(password, salt), nonce, ciphertext)

\* --------------------------------------------------- identifier remapper

Uuid4(n) == FirstUuid + n       \* the (n+1)-th uuid4() of the run

Put(f, k, v) == [x \in (DOMAIN f) \cup {k} |-> IF x = k THEN v ELSE f[x]]

Ids(records) == [i \in DOMAIN records |-> records[i].id]

\* the entities generate_uuid_map visits, in its order
OwnedIds(data) ==
    Ids(data.nodes) \o Ids(data.contexts) \o Ids(data.commands)
        \o Ids(data.variables) \o Ids(data.findings) \o Ids(data.scope_assets)

\* uuid_map[old_id] = str(uuid.uuid4()) for each id in turn, n uuids drawn before
RECURSIVE AssignUuids(_, _, _)
AssignUuids(ids, uuid_map, n) ==
    IF ids = <<>> THEN uuid_map
    ELSE AssignUuids(Tail(ids), Put(uuid_map, Head(ids), Uuid4(n)), n + 1)

generate_uuid_map(data, n) == AssignUuids(OwnedIds(data), <<>>, n)

\* `x.get(ref) and x[ref] in uuid_map` then x[ref] = uuid_map[x[ref]]
RewriteRef(ref, uuid_map) ==
    IF ref # NoId /\ ref \in DOMAIN uuid_map THEN uuid_map[ref] ELSE ref

\* `if rel[end] in uuid_map`
RewriteEnd(ref, uuid_map) ==
    IF ref \in DOMAIN uuid_map THEN uuid_map[ref] ELSE ref

RewriteId(x, uuid_map) == [x EXCEPT !.id = uuid_map[x.id]]

RewriteNodeRef(x, uuid_map) ==
    [x EXCEPT !.id = uuid_map[x.id], !.node_id = RewriteRef(x.node_id, uuid_map)]

RewriteContextRef(x, uuid_map) ==
    [x EXCEPT !.id = uuid_map[x.id], !.context_id = RewriteRef(x.context_id, uuid_map)]

RewriteRel(rel, uuid_map) ==
    [source |-> RewriteEnd(rel.source, uuid_map),
     target |-> RewriteEnd(rel.target, uuid_map)]

rewrite_uuids(data, uuid_map) ==
    [root |-> data.root,
     nodes |-> [i \in DOMAIN data.nodes |-> RewriteId(data.nodes[i], uuid_map)],
     relationships |->
        [i \in DOMAIN data.relationships |-> RewriteRel(data.relationships[i], uuid_map)],
     contexts |-> [i \in DOMAIN data.contexts |-> RewriteId(data.contexts[i], uuid_map)],
     commands |->
        [i \in DOMAIN data.commands |-> RewriteNodeRef(data.commands[i], uuid_map)],
     variables |->
        [i \in DOMAIN data.variables |-> RewriteContextRef(data.variables[i], uuid_map)],
     findings |->
        [i \in DOMAIN data.findings |-> RewriteNodeRef(data.findings[i], uuid_map)],
     scope_assets |->
        [i \in DOMAIN data.scope_assets |-> RewriteId(data.scope_assets[i], uuid_map)]]

\* ------------------------------------------------------------ graph store

\* roots:        [id, kind, owner, is_public]   (u)-[:OWNS]->(p:Project | t:Template)
\* nodes:        [root, id]                     (root)-[:HAS_NODE]->(n)
\* edges:        [root, source, target]         (source)-[:IS_LINKED_TO]->(target), both under root
\* contexts:     [root, id]                     (root)-[:HAS_CONTEXT]->(c)
\* variables:    [root, context, id, value]     (c)-[:HAS_VARIABLE]->(v), c under root
\* commands:     [root, node, id]               (n)-[:HAS_COMMAND]->(cmd), n under root
\* findings:     [root, node, id]               (n)-[:HAS_FINDING]->(f), n under root
\* scope_assets: [root, id]                     (root)-[:HAS_SCOPE_ASSET]->(a)

\* number of rows of MATCH (p:<kind> {id: root_id})
RootCount(st, kind, root_id) ==
    Cardinality({i \in DOMAIN st.roots :
        st.roots[i].id = root_id /\ st.roots[i].kind = kind})

\* number of rows of MATCH (p:<kind> {id: root_id})-[:HAS_NODE]->(n:Node {id: node_id})
NodeCount(st, kind, root_id, node_id) ==
    IF RootCount(st, kind, root_id) = 0 THEN 0
    ELSE Cardinality({i \in DOMAIN st.nodes :
            st.nodes[i].root = root_id /\ st.nodes[i].id = node_id})

\* the rows of MATCH (c:Context {id: context_id}): no root, no owner in the pattern
ContextsWithId(st, context_id) ==
    LET Hit(c) == c.id = context_id IN SelectSeq(st.contexts, Hit)

\* one session.run(...) of the import, applied to the store: a CREATE after a
\* MATCH creates once per matched row
Run(st, stmt) ==
    CASE stmt.op = "create_root" ->
        [st EXCEPT !.roots = Append(@,
            [id |-> stmt.id, kind |-> stmt.kind, owner |-> stmt.user, is_public |-> FALSE])]
      [] stmt.op = "create_node" ->
        [st EXCEPT !.nodes = @ \o Repeat([root |-> stmt.root, id |-> stmt.id],
            RootCount(st, stmt.kind, stmt.root))]
      [] stmt.op = "create_rel" ->
        [st EXCEPT !.edges = @ \o Repeat(
            [root |-> stmt.root, source |-> stmt.source, target |-> stmt.target],
            NodeCount(st, stmt.kind, stmt.root, stmt.source)
                * NodeCount(st, stmt.kind, stmt.root, stmt.target))]
      [] stmt.op = "create_context" ->
        [st EXCEPT !.contexts = @ \o Repeat([root |-> stmt.root, id |-> stmt.id],
            RootCount(st, stmt.kind, stmt.root))]
      [] stmt.op = "create_command" ->
        [st EXCEPT !.commands = @ \o Repeat(
            [root |-> stmt.root, node |-> stmt.node, id |-> stmt.id],
            NodeCount(st, stmt.kind, stmt.root, stmt.node))]
      [] stmt.op = "create_finding" ->
        [st EXCEPT !.findings = @ \o Repeat(
            [root |-> stmt.root, node |-> stmt.node, id |-> stmt.id],
            NodeCount(st, stmt.kind, stmt.root, stmt.node))]
      [] stmt.op = "create_variable" ->
        [st EXCEPT !.variables = @ \o
            [i \in DOMAIN ContextsWithId(st, stmt.context) |->
                [root |-> ContextsWithId(st, stmt.context)[i].root,
                 context |-> stmt.context, id |-> stmt.id, value |-> stmt.value]]]
      [] stmt.op = "create_scope_asset" ->
        [st EXCEPT !.scope_assets = @ \o Repeat([root |-> stmt.root, id |-> stmt.id],
            RootCount(st, stmt.kind, stmt.root))]

RECURSIVE RunAll(_, _)
RunAll(st, stmts) ==
    IF stmts = <<>> THEN st ELSE RunAll(Run(st, Head(stmts)), Tail(stmts))

\* ----------------------------------------------------- import reconstructor

OfRoot(records, root_id) == LET Hit(x) == x.root = root_id IN SelectSeq(records, Hit)

HasNode(records) == LET Hit(x) == x.node_id # NoId IN SelectSeq(records, Hit)

HasContext(records) == LET Hit(x) == x.context_id # NoId IN SelectSeq(records, Hit)

\* the same calls with the relationships issued before the nodes they link
ProjectStatements_EdgesFirst(data, user_id, project_id) ==
    << [op |-> "create_root", kind |-> "Project", id |-> project_id, user |-> user_id] >>
    \o [i \in DOMAIN data.relationships |->
          [op |-> "create_rel", kind |-> "Project", root |-> project_id,
           source |-> data.relationships[i].source,
           target |-> data.relationships[i].target]]
    \o [i \in DOMAIN data.nodes |->
          [op |-> "create_node", kind |-> "Project", root |-> project_id,
           id |-> data.nodes[i].id]]
    \o [i \in DOMAIN data.contexts |->
          [op |-> "create_context", kind |-> "Project", root |-> project_id,
           id |-> data.contexts[i].id]]
    \o [i \in DOMAIN HasNode(data.commands) |->
          [op |-> "create_command", kind |-> "Project", root |-> project_id,
           node |-> HasNode(data.commands)[i].node_id,
           id |-> HasNode(data.commands)[i].id]]
    \o [i \in DOMAIN HasNode(data.findings) |->
          [op |-> "create_finding", kind |-> "Project", root |-> project_id,
           node |-> HasNode(data.findings)[i].node_id,
           id |-> HasNode(data.findings)[i].id]]
    \o [i \in DOMAIN HasContext(data.variables) |->
          [op |-> "create_variable",
           context |-> HasContext(data.variables)[i].context_id,
           id |-> HasContext(data.variables)[i].id,
           value |-> HasContext(data.variables)[i].value]]
    \o [i \in DOMAIN data.scope_assets |->
          [op |-> "create_scope_asset", kind |-> "Project", root |-> project_id,
           id |-> data.scope_assets[i].id]]

\* the session.run calls of _create_new_project, in the order the code issues them
ProjectStatements(data, user_id, project_id) ==
    << [op |-> "create_root", kind |-> "Project", id |-> project_id, user |-> user_id] >>
    \o [i \in DOMAIN data.nodes |->
          [op |-> "create_node", kind |-> "Project", root |-> project_id,
           id |-> data.nodes[i].id]]
    \o [i \in DOMAIN data.relationships |->
          [op |-> "create_rel", kind |-> "Project", root |-> project_id,
           source |-> data.relationships[i].source,
           target |-> data.relationships[i].target]]
    \o [i \in DOMAIN data.contexts |->
          [op |-> "create_context", kind |-> "Project", root |-> project_id,
           id |-> data.contexts[i].id]]
    \o [i \in DOMAIN HasNode(data.commands) |->
          [op |-> "create_command", kind |-> "Project", root |-> project_id,
           node |-> HasNode(data.commands)[i].node_id,
           id |-> HasNode(data.commands)[i].id]]
    \o [i \in DOMAIN HasNode(data.findings) |->
          [op |-> "create_finding", kind |-> "Project", root |-> project_id,
           node |-> HasNode(data.findings)[i].node_id,
           id |-> HasNode(data.findings)[i].id]]
    \o [i \in DOMAIN HasContext(data.variables) |->
          [op |-> "create_variable",
           context |-> HasContext(data.variables)[i].context_id,
           id |-> HasContext(data.variables)[i].id,
           value |-> HasContext(data.variables)[i].value]]
    \o [i \in DOMAIN data.scope_assets |->
          [op |-> "create_scope_asset", kind |-> "Project", root |-> project_id,
           id |-> data.scope_assets[i].id]]

\* the session.run calls of _create_template: no variable, finding or scope asset
TemplateStatements(data, user_id, template_id) ==
    << [op |-> "create_root", kind |-> "Template", id |-> template_id, user |-> user_id] >>
    \o [i \in DOMAIN data.nodes |->
          [op |-> "create_node", kind |-> "Template", root |-> template_id,
           id |-> data.nodes[i].id]]
    \o [i \in DOMAIN data.relationships |->
          [op |-> "create_rel", kind |-> "Template", root |-> template_id,
           source |-> data.relationships[i].source,
           target |-> data.relationships[i].target]]
    \o [i \in DOMAIN data.contexts |->
          [op |-> "create_context", kind |-> "Template", root |-> template_id,
           id |-> data.contexts[i].id]]
    \o [i \in DOMAIN HasNode(data.commands) |->
          [op |-> "create_command", kind |-> "Template", root |-> template_id,
           node |-> HasNode(data.commands)[i].node_id,
           id |-> HasNode(data.commands)[i].id]]

_create_new_project(st, data, user_id, project_id) ==
    RunAll(st, ProjectStatements(data, user_id, project_id))

_create_template(st, data, user_id, template_id) ==
    RunAll(st, TemplateStatements(data, user_id, template_id))

\* ------------------------------------------------------ snapshot assembler

\* MATCH (u:User {id: $user_id})-[:OWNS]->(p:Project {id: $project_id})
OwnsProject(st, user_id, project_id) ==
    \E i \in DOMAIN st.roots :
        /\ st.roots[i].id = project_id
        /\ st.roots[i].kind = "Project"
        /\ st.roots[i].owner = user_id

\* MATCH (t:Template {id}) WHERE (t)<-[:OWNS]-(:User {id}) OR t.is_public = true
MayReadTemplate(st, user_id, template_id) ==
    \E i \in DOMAIN st.roots :
        /\ st.roots[i].id = template_id
        /\ st.roots[i].kind = "Template"
        /\ (st.roots[i].owner = user_id \/ st.roots[i].is_public)

NodeRows(st, root_id) ==
    [i \in DOMAIN OfRoot(st.nodes, root_id) |-> [id |-> OfRoot(st.nodes, root_id)[i].id]]

RelRows(st, root_id) ==
    [i \in DOMAIN OfRoot(st.edges, root_id) |->
        [source |-> OfRoot(st.edges, root_id)[i].source,
         target |-> OfRoot(st.edges, root_id)[i].target]]

ContextRows(st, root_id) ==
    [i \in DOMAIN OfRoot(st.contexts, root_id) |->
        [id |-> OfRoot(st.contexts, root_id)[i].id]]

VariableRows(st, root_id) ==
    [i \in DOMAIN OfRoot(st.variables, root_id) |->
        [id |-> OfRoot(st.variables, root_id)[i].id,
         context_id |-> OfRoot(st.variables, root_id)[i].context,
         value |-> OfRoot(st.variables, root_id)[i].value]]

CommandRows(st, root_id) ==
    [i \in DOMAIN OfRoot(st.commands, root_id) |->
        [id |-> OfRoot(st.commands, root_id)[i].id,
         node_id |-> OfRoot(st.commands, root_id)[i].node]]

FindingRows(st, root_id) ==
    [i \in DOMAIN OfRoot(st.findings, root_id) |->
        [id |-> OfRoot(st.findings, root_id)[i].id,
         node_id |-> OfRoot(st.findings, root_id)[i].node]]

ScopeRows(st, root_id) ==
    [i \in DOMAIN OfRoot(st.scope_assets, root_id) |->
        [id |-> OfRoot(st.scope_assets, root_id)[i].id]]

\* <<>> stands for the None the code returns when the ownership MATCH has no row
_fetch_project_data(st, project_id, user_id, include_variables, include_scope) ==
    IF ~OwnsProject(st, user_id, project_id) THEN <<>>
    ELSE << [root |-> "project",
             nodes |-> NodeRows(st, project_id),
             relationships |-> RelRows(st, project_id),
             contexts |-> ContextRows(st, project_id),
             variables |-> IF include_variables THEN VariableRows(st, project_id) ELSE <<>>,
             commands |-> CommandRows(st, project_id),
             findings |-> FindingRows(st, project_id),
             scope_assets |-> IF include_scope THEN ScopeRows(st, project_id) ELSE <<>>] >>

\* a template assembler that reads the variables and findings as the project one does
_fetch_template_data_Unredacted(st, template_id, user_id) ==
    IF ~MayReadTemplate(st, user_id, template_id) THEN <<>>
    ELSE << [root |-> "template",
             nodes |-> NodeRows(st, template_id),
             relationships |-> RelRows(st, template_id),
             contexts |-> ContextRows(st, template_id),
             variables |-> VariableRows(st, template_id),
             commands |-> CommandRows(st, template_id),
             findings |-> FindingRows(st, template_id),
             scope_assets |-> <<>>] >>

\* ExportService._fetch_template_data, with the blanking of export_template
_fetch_template_data(st, template_id, user_id) ==
    IF ~MayReadTemplate(st, user_id, template_id) THEN <<>>
    ELSE << [root |-> "template",
             nodes |-> NodeRows(st, template_id),
             relationships |-> RelRows(st, template_id),
             contexts |-> ContextRows(st, template_id),
             variables |-> <<>>,
             commands |-> CommandRows(st, template_id),
             findings |-> <<>>,
             scope_assets |-> <<>>] >>

\* -------------------------------------------------------- container codec

\* A file on disk.  zip: "zip" (an archive), "empty" (zero bytes) or "garbage"
\* (bytes that are no archive).  A member is <<>> when the archive has none
\* under that name and <<content>> when it has one.
Zip(metadata, data_json, data_enc, salt_bin, nonce_bin) ==
    [zip |-> "zip", metadata |-> metadata, data_json |-> data_json,
     data_enc |-> data_enc, salt_bin |-> salt_bin, nonce_bin |-> nonce_bin]

NotAZip(kind) ==
    [zip |-> kind, metadata |-> <<>>, data_json |-> <<>>,
     data_enc |-> <<>>, salt_bin |-> <<>>, nonce_bin |-> <<>>]

\* metadata.json as the exports write it; json = FALSE is a member json.loads rejects
Metadata(format, version) == [json |-> TRUE, format |-> format, version |-> version]

\* secrets.token_bytes: the (n+1)-th value drawn from `secrets`, never one met before
token_bytes(n) == FirstUuid + n

\* a generator that returns one fixed password
generate_secure_password_Fixed(n) == << 1 >>

\* ExportService.generate_secure_password: 24 characters of an alphabet without "\x00"
generate_secure_password(n) == << token_bytes(n) >>

\* the zipfile block both exports end with
WriteContainer(format, data, encryption_method, password, n) ==
    IF encryption_method = "none"
    THEN Zip(<<Metadata(format, "1.0")>>, <<data>>, <<>>, <<>>, <<>>)
    ELSE LET enc == encrypt_data(data, password, token_bytes(n), token_bytes(n + 1))
         IN Zip(<<Metadata(format, "1.0")>>, <<>>,
                <<enc.ciphertext>>, <<enc.salt>>, <<enc.nonce>>)

Draws(encryption_method) ==
    CASE encryption_method = "none" -> 0
      [] encryption_method = "password" -> 2
      [] encryption_method = "generated" -> 3

ExportFailure(error, n) ==
    [ok |-> FALSE, error |-> error, file |-> <<>>, generated_password |-> None,
     password |-> None, drawn |-> n]

\* the password the export encrypts with: `password = generated_password`
EffectivePassword(encryption_method, password, n) ==
    IF encryption_method = "generated" THEN generate_secure_password(n) ELSE password

Export(format, fetched, encryption_method, password, n) ==
    IF encryption_method = "password" /\ NotPassword(password)
    THEN ExportFailure("Password required for password encryption method", n)
    ELSE IF fetched = <<>>
    THEN ExportFailure("not found or access denied",
                       IF encryption_method = "generated" THEN n + 1 ELSE n)
    ELSE [ok |-> TRUE, error |-> "",
          file |-> << WriteContainer(format, fetched[1], encryption_method,
                        EffectivePassword(encryption_method, password, n),
                        IF encryption_method = "generated" THEN n + 1 ELSE n) >>,
          generated_password |->
              IF encryption_method = "generated"
              THEN generate_secure_password(n) ELSE None,
          password |->
              IF encryption_method = "none" THEN None
              ELSE EffectivePassword(encryption_method, password, n),
          drawn |-> n + Draws(encryption_method)]

export_project(st, n, project_id, user_id, encryption_method, password, include_variables, include_scope) ==
    Export("pwnflow-project",
           _fetch_project_data(st, project_id, user_id, include_variables, include_scope),
           encryption_method, password, n)

export_template(st, n, template_id, user_id, encryption_method, password) ==
    Export("pwnflow-template", _fetch_template_data(st, template_id, user_id),
           encryption_method, password, n)

\* -------------------------------------------------------- import handlers

PayloadFailure(error) == [ok |-> FALSE, error |-> error, data |-> <<>>]

\* metadata, format tag and payload, as import_project and import_template read
\* them; every failure here is an exception raised before any store call
ReadPayload(file, format, password) ==
    IF file.zip # "zip" THEN PayloadFailure("BadZipFile")
    ELSE IF file.metadata = <<>> THEN PayloadFailure("KeyError")
    ELSE IF ~file.metadata[1].json THEN PayloadFailure("JSONDecodeError")
    ELSE IF file.metadata[1].format # format THEN PayloadFailure("Invalid file format")
    ELSE IF file.data_enc # <<>>
    THEN IF NotPassword(password) THEN PayloadFailure("Password required for encrypted file")
         ELSE IF file.salt_bin = <<>> \/ file.nonce_bin = <<>> THEN PayloadFailure("KeyError")
         ELSE LET dec == decrypt_data(file.data_enc[1], password,
                                      file.salt_bin[1], file.nonce_bin[1])
              IN IF dec.ok THEN [ok |-> TRUE, error |-> "", data |-> dec.plaintext]
                 ELSE PayloadFailure("InvalidTag")
    ELSE IF file.data_json = <<>> THEN PayloadFailure("KeyError")
    ELSE [ok |-> TRUE, error |-> "", data |-> file.data_json]

ImportFailure(st, n, error, read) ==
    [ok |-> FALSE, error |-> error, store |-> st, uuid |-> n, root |-> NoId,
     data_in |-> read, uuid_map |-> <<>>, data |-> <<>>]

\* ImportService.import_project; target is NoId when no target_project_id is given
import_project(st, n, file, user_id, password, import_mode, target_project_id) ==
    LET read == ReadPayload(file, "pwnflow-project", password) IN
    IF ~read.ok THEN ImportFailure(st, n, read.error, <<>>)
    ELSE LET data_in == read.data[1]
             uuid_map == generate_uuid_map(data_in, n)
             data == rewrite_uuids(data_in, uuid_map)
             n1 == n + Len(OwnedIds(data_in))
         IN IF import_mode = "new"
            THEN IF data.root # "project" THEN ImportFailure(st, n1, "KeyError", read.data)
                 ELSE [ok |-> TRUE, error |-> "",
                       store |-> _create_new_project(st, data, user_id, Uuid4(n1)),
                       uuid |-> n1 + 1, root |-> Uuid4(n1),
                       data_in |-> read.data, uuid_map |-> uuid_map, data |-> <<data>>]
            ELSE IF target_project_id = NoId
            THEN ImportFailure(st, n1, "Target project ID required for merge mode",
                               read.data)
            ELSE ImportFailure(st, n1, "NotImplementedError", read.data)

\* ImportService.import_template
import_template(st, n, file, user_id, password) ==
    LET read == ReadPayload(file, "pwnflow-template", password) IN
    IF ~read.ok THEN ImportFailure(st, n, read.error, <<>>)
    ELSE LET data_in == read.data[1]
             uuid_map == generate_uuid_map(data_in, n)
             data == rewrite_uuids(data_in, uuid_map)
             n1 == n + Len(OwnedIds(data_in))
         IN IF data.root # "template" THEN ImportFailure(st, n1, "KeyError", read.data)
            ELSE [ok |-> TRUE, error |-> "",
                  store |-> _create_template(st, data, user_id, Uuid4(n1)),
                  uuid |-> n1 + 1, root |-> Uuid4(n1),
                  data_in |-> read.data, uuid_map |-> uuid_map, data |-> <<data>>]

\* _create_new_project / _create_template when the fail_at-th session.run
\* raises: every statement is its own auto-commit transaction and no except
\* clause surrounds it, so the statements before it stay written and the
\* exception leaves the method
CreateUntilFailure(st, stmts, fail_at) == RunAll(st, SubSeq(stmts, 1, fail_at - 1))

\* the statements the import of `data` issues
ImportStatements(format, data, user_id, root_id) ==
    IF format = "pwnflow-project" THEN ProjectStatements(data, user_id, root_id)
    ELSE TemplateStatements(data, user_id, root_id)

\* import_project (mode New) and import_template over a graph store whose
\* fail_at-th call raises; the except clause of the import turns the exception
\* into Exception("Import failed: ..."), the only thing the caller gets
ImportWithStoreFailure(st, n, file, format, user_id, password, fail_at) ==
    LET whole == IF format = "pwnflow-project"
                 THEN import_project(st, n, file, user_id, password, "new", NoId)
                 ELSE import_template(st, n, file, user_id, password)
    IN IF ~whole.ok THEN whole
       ELSE LET stmts == ImportStatements(format, whole.data[1], user_id, whole.root)
            IN IF fail_at > Len(stmts) THEN whole
               ELSE [ok |-> FALSE, error |-> "Import failed: ServiceUnavailable",
                     store |-> CreateUntilFailure(st, stmts, fail_at),
                     uuid |-> whole.uuid, root |-> NoId, data_in |-> whole.data_in,
                     uuid_map |-> whole.uuid_map, data |-> whole.data]

\* ---------------------------------------------------------- legacy import

\* a node of a legacy document; `name` is <<>> when data.name is missing
LegacyNode(id, name, commands) == [id |-> id, name |-> name, commands |-> commands]

LegacyEdge(id, source, target) == [id |-> id, source |-> source, target |-> target]

LegacyFlowData(nodes, edges) == [nodes |-> nodes, edges |-> edges]

\* a legacy project document; an Optional field is <<>> (absent) or <<value>>
LegacyProject(nodes, edges, flowData, template) ==
    [id |-> 1, name |-> 1, identifier |-> <<1>>, nodes |-> nodes, edges |-> edges,
     flowData |-> flowData, template |-> template]

LegacyTemplate(flowData) == [id |-> 1, name |-> 1, flowData |-> flowData]

\* the node records of a document, wherever they are
DocNodes(doc) ==
    (IF doc.nodes = <<>> THEN <<>> ELSE doc.nodes[1])
    \o (IF doc.flowData = <<>> THEN <<>> ELSE doc.flowData[1].nodes)
    \o (IF doc.template = <<>> THEN <<>> ELSE doc.template[1].flowData.nodes)

\* LegacyProject(**legacy_data): pydantic validates the whole document, every
\* node of it included; `identifier` and each node's data.name are required
Validates(doc) ==
    /\ doc.identifier # <<>>
    /\ \A i \in DOMAIN DocNodes(doc) : DocNodes(doc)[i].name # <<>>

\* Python truthiness of an Optional[List]
Truthy(optional) == optional # <<>> /\ optional[1] # <<>>

\* LegacyImportService._extract_nodes_and_edges
_extract_nodes_and_edges(legacy_project) ==
    IF Truthy(legacy_project.nodes) /\ Truthy(legacy_project.edges)
    THEN LegacyFlowData(legacy_project.nodes[1], legacy_project.edges[1])
    ELSE IF legacy_project.flowData # <<>> THEN legacy_project.flowData[1]
    ELSE IF legacy_project.template # <<>> THEN legacy_project.template[1].flowData
    ELSE LegacyFlowData(<<>>, <<>>)

\* progress_queue = asyncio.Queue(): maxsize 0, which asyncio reads as no bound,
\* so that `await progress_queue.put(progress)` never suspends
maxsize == 0

\* LegacyImportService._update_progress: the one ImportProgress object of the
\* service is changed in place and the same object is put on the queue, so the
\* queue holds references and only their number matters
_update_progress(l, percentage) ==
    [l EXCEPT !.progress.percentage = percentage, !.queue = @ + 1]

\* LegacyImportService.__init__ and the start of the event generator
StartLegacy(doc, user_id) ==
    [task |-> "parse", gen |-> "get", doc |-> doc, user |-> user_id,
     nodes |-> <<>>, edges |-> <<>>, i |-> 0, project_id |-> NoId,
     progress |-> [percentage |-> 0, total_nodes |-> 0, processed_nodes |-> 0,
                   total_edges |-> 0, processed_edges |-> 0],
     node_mappings |-> <<>>, edge_mappings |-> <<>>, errors |-> <<>>, warnings |-> <<>>,
     queue |-> 0, events |-> <<>>, heartbeats |-> 0, failures |-> 0]

\* the task ends with an exception: import_legacy_project appends to errors and re-raises
Raise(l, what) ==
    [l EXCEPT !.task = "raised", !.errors = Append(@, [kind |-> "Import failed", id |-> what])]

\* import_legacy_project up to the call of _create_project
ParseLegacy(l) ==
    IF ~Validates(l.doc) THEN Raise(l, "ValidationError")
    ELSE LET found == _extract_nodes_and_edges(l.doc)
             l1 == _update_progress(l, 10)
             l2 == [l1 EXCEPT !.nodes = found.nodes, !.edges = found.edges,
                              !.progress.total_nodes = Len(found.nodes),
                              !.progress.total_edges = Len(found.edges)]
         IN [_update_progress(l2, 20) EXCEPT !.task = "create_project"]

\* what one step of the background task leaves: its own state, the store, the uuid counter
Step(l, st, n) == [legacy |-> l, store |-> st, uuid |-> n]

\* a root creation whose failure is logged and passed over: the task goes on
\* to the nodes without a project
CreateLegacyProject_Continuing(l, st, n, outcome) ==
    IF outcome = "ok"
    THEN Step([_update_progress(l, 30) EXCEPT !.task = "nodes", !.i = 1,
                                              !.project_id = Uuid4(n)],
              [st EXCEPT !.roots = Append(@, [id |-> Uuid4(n), kind |-> "Project",
                                              owner |-> l.user, is_public |-> FALSE])],
              n + 1)
    ELSE Step([_update_progress([l EXCEPT !.failures = @ + 1,
                                          !.errors = Append(@, [kind |-> "Import failed",
                                                                id |-> "create_project"])],
                                30)
                  EXCEPT !.task = "nodes", !.i = 1],
              st, n + 1)

\* LegacyImportService._create_project, then the "Importing nodes" update;
\* `outcome` is "ok", or the call of the graph store that raises: the CREATE of
\* project_crud.create_project ("project") or the SET of the legacy metadata
\* ("metadata"), which comes after the Project is written
CreateLegacyProject(l, st, n, outcome) ==
    LET with_project ==
            [st EXCEPT !.roots = Append(@, [id |-> Uuid4(n), kind |-> "Project",
                                            owner |-> l.user, is_public |-> FALSE])]
        failed == Raise([l EXCEPT !.failures = @ + 1], "create_project")
    IN CASE outcome = "project" -> Step(failed, st, n + 1)
         [] outcome = "metadata" -> Step(failed, with_project, n + 1)
         [] outcome = "ok" ->
              Step([_update_progress(l, 30) EXCEPT !.task = "nodes", !.i = 1,
                                                   !.project_id = Uuid4(n)],
                   with_project, n + 1)

Max(a, b) == IF a > b THEN a ELSE b

\* a loop of _import_nodes with no except clause: an exception of the graph
\* store ends the task
ImportNode_Raising(l, st, n, outcome) ==
    IF outcome = "ok"
    THEN Step(_update_progress(
                  [l EXCEPT !.node_mappings = Put(@, l.nodes[l.i].id, Uuid4(n)),
                            !.i = @ + 1, !.progress.processed_nodes = @ + 1],
                  30 + (l.i * 40) \div Max(Len(l.nodes), 1)),
              [st EXCEPT !.nodes = Append(@, [id |-> Uuid4(n), root |-> l.project_id])],
              n + 1 + l.nodes[l.i].commands)
    ELSE Step(Raise([l EXCEPT !.failures = @ + 1, !.i = @ + 1,
                              !.errors = Append(@, [kind |-> "Node",
                                                    id |-> l.nodes[l.i].id])],
                    "session.run"),
              st, n + 1)

\* one iteration of the loop of _import_nodes; `outcome` is "ok", or the call
\* of the graph store that raises: the CREATE of the "node" or of its "command"
ImportNode(l, st, n, outcome) ==
    LET legacy_node == l.nodes[l.i]
        new_node_id == Uuid4(n)
        mapped == [l EXCEPT !.node_mappings = Put(@, legacy_node.id, new_node_id),
                            !.i = @ + 1]
        failed == [mapped EXCEPT !.failures = @ + 1,
                                 !.errors = Append(@, [kind |-> "Node", id |-> legacy_node.id])]
        with_node == [st EXCEPT !.nodes = Append(@, [id |-> new_node_id,
                                                      root |-> l.project_id])]
        with_command ==
            IF legacy_node.commands = 0 THEN with_node
            ELSE [with_node EXCEPT !.commands =
                      Append(@, [id |-> Uuid4(n + 1), root |-> l.project_id,
                                 node |-> new_node_id])]
    IN CASE outcome = "node" -> Step(failed, st, n + 1)
         [] outcome = "command" -> Step(failed, with_node, n + 2)
         [] outcome = "ok" ->
              Step(_update_progress(
                       [mapped EXCEPT !.progress.processed_nodes = @ + 1],
                       30 + (l.i * 40) \div Max(Len(l.nodes), 1)),
                   with_command, n + 1 + legacy_node.commands)

\* self.node_mappings.get(old_id): NoId stands for None
MappingGet(mappings, old_id) ==
    IF old_id \in DOMAIN mappings THEN mappings[old_id] ELSE NoId

\* number of rows of MATCH (n:Node {id: node_id}): no project in the pattern
NodesWithId(st, node_id) ==
    Cardinality({k \in DOMAIN st.nodes : st.nodes[k].id = node_id})

\* an edge loop that lists an edge with a missing end in errors, not in warnings
ImportEdge_Promoting(l, st, n, fails) ==
    LET legacy_edge == l.edges[l.i]
        source_id == MappingGet(l.node_mappings, legacy_edge.source)
        target_id == MappingGet(l.node_mappings, legacy_edge.target)
        next == [l EXCEPT !.i = @ + 1]
        rows == NodesWithId(st, source_id) * NodesWithId(st, target_id)
    IN IF source_id = NoId \/ target_id = NoId
       THEN Step([next EXCEPT !.errors = Append(@, [kind |-> "Edge",
                                                    id |-> legacy_edge.id])],
                 st, n)
       ELSE IF fails
       THEN Step([next EXCEPT !.failures = @ + 1,
                              !.errors = Append(@, [kind |-> "Edge",
                                                    id |-> legacy_edge.id])],
                 st, n + 1)
       ELSE Step(_update_progress(
                     [next EXCEPT !.edge_mappings = Put(@, legacy_edge.id, Uuid4(n)),
                                  !.progress.processed_edges = @ + 1],
                     70 + (l.i * 20) \div Max(Len(l.edges), 1)),
                 [st EXCEPT !.edges = @ \o Repeat([source |-> source_id,
                                                   target |-> target_id,
                                                   root |-> l.project_id], rows)],
                 n + 1)

\* one iteration of the loop of _import_edges
ImportEdge(l, st, n, fails) ==
    LET legacy_edge == l.edges[l.i]
        source_id == MappingGet(l.node_mappings, legacy_edge.source)
        target_id == MappingGet(l.node_mappings, legacy_edge.target)
        next == [l EXCEPT !.i = @ + 1]
        rows == NodesWithId(st, source_id) * NodesWithId(st, target_id)
    IN IF source_id = NoId \/ target_id = NoId
       THEN Step([next EXCEPT !.warnings = Append(@, [kind |-> "Edge",
                                                      id |-> legacy_edge.id])],
                 st, n)
       ELSE IF fails
       THEN Step([next EXCEPT !.failures = @ + 1,
                              !.errors = Append(@, [kind |-> "Edge",
                                                    id |-> legacy_edge.id])],
                 st, n + 1)
       ELSE Step(_update_progress(
                     [next EXCEPT !.edge_mappings = Put(@, legacy_edge.id, Uuid4(n)),
                                  !.progress.processed_edges = @ + 1],
                     70 + (l.i * 20) \div Max(Len(l.edges), 1)),
                 [st EXCEPT !.edges = @ \o Repeat([source |-> source_id,
                                                   target |-> target_id,
                                                   root |-> l.project_id], rows)],
                 n + 1)

\* the ImportResult import_legacy_project returns
ImportResult(l) ==
    [project_id |-> l.project_id, original_id |-> l.doc.id,
     node_mappings |-> l.node_mappings, edge_mappings |-> l.edge_mappings,
     imported_nodes |-> l.progress.processed_nodes,
     imported_edges |-> l.progress.processed_edges,
     errors |-> l.errors, warnings |-> l.warnings]

\* the "Import completed" update and the return of import_legacy_project
FinishLegacy(l) == [_update_progress(l, 100) EXCEPT !.task = "returned"]

\* a passage to the edges that reports no progress
NodesDone_Silent(l) ==
    [l EXCEPT !.task = "edges", !.i = 1]

\* after the loop of _import_nodes: the "Importing relationships" update
NodesDone(l) ==
    [_update_progress(l, 70) EXCEPT !.task = "edges", !.i = 1]

\* after the loop of _import_edges: the template, if the document has one
EdgesDone(l) ==
    IF l.doc.template # <<>> THEN [_update_progress(l, 90) EXCEPT !.task = "template"]
    ELSE FinishLegacy(l)

\* LegacyImportService._import_template: a failure of the store is a warning
_import_template(l, st, n, fails) ==
    IF fails
    THEN Step(FinishLegacy([l EXCEPT !.failures = @ + 1,
                                     !.warnings = Append(@, [kind |-> "Template",
                                                             id |-> l.doc.template[1].id])]),
              st, n + 1)
    ELSE Step(FinishLegacy(l),
              [st EXCEPT !.roots = Append(@, [id |-> Uuid4(n), kind |-> "Template",
                                              owner |-> NoId, is_public |-> FALSE])],
              n + 1)

\* validate_legacy_data: the arrays it counts, found as the import finds them
\* but on the raw document
ValidatedArrays(doc) ==
    IF Truthy(doc.nodes) /\ Truthy(doc.edges)
    THEN LegacyFlowData(doc.nodes[1], doc.edges[1])
    ELSE IF doc.flowData # <<>> THEN doc.flowData[1]
    ELSE IF doc.template # <<>> THEN doc.template[1].flowData
    ELSE LegacyFlowData(<<>>, <<>>)

\* POST /legacy/import/validate: an error for a missing project id or name, a
\* node without id, an edge without source or target; a node without name and
\* an edge to a node that is not there are warnings; `identifier` is not looked at
validate_legacy_data(doc) ==
    LET found == ValidatedArrays(doc)
        node_ids == {found.nodes[i].id : i \in DOMAIN found.nodes}
        errors ==
            (IF doc.id = NoId THEN {"Missing project ID"} ELSE {})
            \cup (IF doc.name = NoId THEN {"Missing project name"} ELSE {})
            \cup {"Node missing ID" : i \in {j \in DOMAIN found.nodes : found.nodes[j].id = NoId}}
            \cup {"Edge missing source or target" :
                    i \in {j \in DOMAIN found.edges :
                              found.edges[j].source = NoId \/ found.edges[j].target = NoId}}
        warnings ==
            (IF found.nodes = <<>> THEN {[kind |-> "No nodes", id |-> NoId]} ELSE {})
            \cup {[kind |-> "Node", id |-> found.nodes[i].id] :
                i \in {j \in DOMAIN found.nodes : found.nodes[j].name = <<>>}}
            \cup {[kind |-> "Edge", id |-> found.edges[i].id] :
                    i \in {j \in DOMAIN found.edges :
                              found.edges[j].source \notin node_ids
                                  \/ found.edges[j].target \notin node_ids}}
    IN [valid |-> errors = {}, errors |-> errors, warnings |-> warnings,
        nodes_count |-> Len(found.nodes), edges_count |-> Len(found.edges)]

\* an event of the stream
Event(type, percentage, import_result) ==
    [type |-> type, percentage |-> percentage, result |-> import_result]

Emit(l, event) == [l EXCEPT !.events = Append(@, event)]

TaskDone(l) == l.task \in {"returned", "raised"}

\* `result = await import_task` and the event after it: "complete" with the
\* result, or "error" when the await raises the task's exception
TerminalEvent(l) ==
    IF l.task = "returned" THEN Event("complete", -1, <<ImportResult(l)>>)
    ELSE Event("error", -1, <<>>)

\* event_generator: one item is taken from the queue and a progress event is
\* yielded with the fields the ImportProgress object has at that moment
TakeProgress(l) ==
    [Emit(l, Event("progress", l.progress.percentage, <<>>)) EXCEPT
        !.queue = @ - 1,
        !.gen = IF l.progress.percentage >= 100 THEN "complete" ELSE "get"]

\* a timeout branch that yields nothing before it looks at the task
Heartbeat_Silent(l) ==
    [l EXCEPT !.gen = "check", !.heartbeats = @ + 1]

\* event_generator: asyncio.TimeoutError, a heartbeat is yielded
Heartbeat(l) ==
    [Emit(l, Event("heartbeat", -1, <<>>)) EXCEPT !.gen = "check", !.heartbeats = @ + 1]

\* a generator that stops at a finished task without the event for it
CheckTask_Silent(l) ==
    IF TaskDone(l) THEN [l EXCEPT !.gen = "done"]
    ELSE [l EXCEPT !.gen = "get"]

\* event_generator after the heartbeat: `if import_task.done():`
CheckTask(l) ==
    IF TaskDone(l) THEN [Emit(l, TerminalEvent(l)) EXCEPT !.gen = "done"]
    ELSE [l EXCEPT !.gen = "get"]

\* --------------------------------------------------------------- preview

PreviewError(error, metadata) ==
    [kind |-> "error", error |-> error, metadata |-> metadata, decrypted |-> FALSE]

\* the `except Exception` handler of preview_import calls logger.error, and the
\* module defines no `logger`: the handler itself raises NameError
PreviewFault(decrypted) ==
    [kind |-> "fault", error |-> "NameError", metadata |-> <<>>, decrypted |-> decrypted]

PreviewCounts(data, metadata, decrypted) ==
    IF data.root = "none" THEN PreviewFault(decrypted)
    ELSE [kind |-> "preview", error |-> "", metadata |-> <<>>, decrypted |-> decrypted,
          type |-> data.root, format_version |-> metadata.version,
          node_count |-> Len(data.nodes), context_count |-> Len(data.contexts),
          command_count |-> Len(data.commands), variable_count |-> Len(data.variables),
          scope_asset_count |-> Len(data.scope_assets)]

\* ImportService.preview_import; `decrypted` records that decrypt_data returned
preview_import(file, password) ==
    IF file.zip = "empty" THEN PreviewError("File is empty", <<>>)
    ELSE IF file.zip # "zip" THEN PreviewError("Invalid file format", <<>>)
    ELSE IF file.metadata = <<>>
    THEN PreviewError("Invalid file format: metadata.json not found", <<>>)
    ELSE IF ~file.metadata[1].json THEN PreviewError("Failed to read file", <<>>)
    ELSE IF file.data_enc # <<>> /\ NotPassword(password)
    THEN PreviewError("Password required for encrypted file", file.metadata)
    ELSE IF file.data_enc # <<>>
    THEN IF file.salt_bin = <<>> \/ file.nonce_bin = <<>> THEN PreviewFault(FALSE)
         ELSE LET dec == decrypt_data(file.data_enc[1], password,
                                      file.salt_bin[1], file.nonce_bin[1])
              IN IF dec.ok THEN PreviewCounts(dec.plaintext[1], file.metadata[1], TRUE)
                 ELSE PreviewError("Invalid password", file.metadata)
    ELSE IF file.data_json = <<>> THEN PreviewFault(FALSE)
    ELSE PreviewCounts(file.data_json[1], file.metadata[1], FALSE)

\* preview_project_import / preview_template_import: what the HTTP caller gets.
\* An error result becomes HTTPException(400, detail=preview["error"]), which
\* carries nothing else of the result; an exception out of the service is not
\* caught and is answered with a 500.
preview_endpoint(file, password) ==
    LET preview == preview_import(file, password) IN
    CASE preview.kind = "fault" ->
            [status |-> 500, detail |-> "Internal Server Error", metadata |-> <<>>,
             body |-> <<>>]
      [] preview.kind = "error" ->
            [status |-> 400, detail |-> preview.error, metadata |-> <<>>, body |-> <<>>]
      [] preview.kind = "preview" ->
            [status |-> 200, detail |-> "", metadata |-> <<>>, body |-> <<preview>>]

\* ------------------------------------------------------------------ inputs

Data(root, nodes, relationships, contexts, variables, commands, findings, scope_assets) ==
    [root |-> root, nodes |-> nodes, relationships |-> relationships,
     contexts |-> contexts, variables |-> variables, commands |-> commands,
     findings |-> findings, scope_assets |-> scope_assets]

Node(id) == [id |-> id]
Rel(source, target) == [source |-> source, target |-> target]
Var(id, context_id) == [id |-> id, context_id |-> context_id, value |-> 1]
Cmd(id, node_id) == [id |-> id, node_id |-> node_id]

\* ------------------------------------------------------------------- state

\* user 1 owns project 10 and template 20, made through the CRUD layer
InitStore ==
    [roots |-> << [id |-> 10, kind |-> "Project", owner |-> 1, is_public |-> FALSE],
                  [id |-> 20, kind |-> "Template", owner |-> 1, is_public |-> FALSE] >>,
     nodes |-> << [root |-> 10, id |-> 11], [root |-> 10, id |-> 12],
                  [root |-> 20, id |-> 21] >>,
     edges |-> << [root |-> 10, source |-> 11, target |-> 12] >>,
     contexts |-> << [root |-> 10, id |-> 13], [root |-> 20, id |-> 22] >>,
     variables |-> << [root |-> 10, context |-> 13, id |-> 14, value |-> 7],
                      [root |-> 20, context |-> 22, id |-> 23, value |-> 8] >>,
     commands |-> << [root |-> 10, node |-> 11, id |-> 15],
                     [root |-> 20, node |-> 21, id |-> 24] >>,
     findings |-> << [root |-> 10, node |-> 12, id |-> 16] >>,
     scope_assets |-> << [root |-> 10, id |-> 17] >>]

VictimContext == InitStore.contexts[1].id
Unknown == VictimContext - 4

\* identifiers a hand-made container uses; VictimContext is the id of a Context
\* of user 1 in the initial store, Unknown is the id of nothing

\* a well-formed project payload
GoodData ==
    Data("project", <<Node(1), Node(2)>>, <<Rel(1, 2)>>, <<Node(3)>>, <<Var(4, 3)>>,
         <<Cmd(5, 1)>>, <<Cmd(6, 2)>>, <<Node(7)>>)

\* hand-made payloads: each departs from GoodData in one place
CraftedData ==
    { GoodData,
      [GoodData EXCEPT !.root = "template"],
      [GoodData EXCEPT !.root = "none"],
      [GoodData EXCEPT !.nodes = <<Node(1), Node(1)>>, !.relationships = <<Rel(1, 1)>>,
                       !.findings = <<>>],
      [GoodData EXCEPT !.contexts = <<Node(1)>>, !.variables = <<Var(4, 1)>>],
      [GoodData EXCEPT !.relationships = <<Rel(1, Unknown)>>],
      [GoodData EXCEPT !.relationships = <<Rel(VictimContext, 2)>>],
      [GoodData EXCEPT !.variables = <<Var(4, VictimContext)>>],
      [GoodData EXCEPT !.variables = <<Var(4, Unknown)>>],
      [GoodData EXCEPT !.variables = <<Var(4, NoId)>>],
      [GoodData EXCEPT !.commands = <<Cmd(5, Unknown)>>],
      [GoodData EXCEPT !.findings = <<Cmd(6, Unknown)>>],
      [GoodData EXCEPT !.commands = <<Cmd(5, NoId)>>] }

Formats == {"pwnflow-project", "pwnflow-template"}
Versions == {"1.0", "2.0"}

\* a ciphertext made outside the program, sealed with password <<2>>
ForeignBox == encrypt_data(GoodData, <<2>>, 1, 2)

\* structurally malformed files
Malformed ==
    { NotAZip("empty"), NotAZip("garbage"),
      Zip(<<>>, <<GoodData>>, <<>>, <<>>, <<>>),
      Zip(<<[json |-> FALSE]>>, <<GoodData>>, <<>>, <<>>, <<>>),
      Zip(<<Metadata("pwnflow-project", "1.0")>>, <<>>, <<>>, <<>>, <<>>),
      Zip(<<Metadata("pwnflow-project", "1.0")>>, <<>>,
          <<ForeignBox.ciphertext>>, <<>>, <<ForeignBox.nonce>>),
      Zip(<<Metadata("pwnflow-project", "1.0")>>, <<>>,
          <<ForeignBox.ciphertext>>, <<ForeignBox.salt>>, <<>>) }

\* every hand-made file
Crafted ==
    Malformed \cup
    { Zip(<<Metadata(f, v)>>, <<d>>, <<>>, <<>>, <<>>) :
        f \in Formats, v \in Versions, d \in CraftedData }

\* the hand-made files imported before a run starts
Uploads ==
    { Zip(<<Metadata("pwnflow-project", "1.0")>>, <<d>>, <<>>, <<>>, <<>>) :
        d \in { [GoodData EXCEPT !.nodes = <<Node(1), Node(1)>>,
                                 !.relationships = <<Rel(1, 1)>>, !.findings = <<>>],
                [GoodData EXCEPT !.variables = <<Var(4, VictimContext)>>] } }


NoExport ==
    [ok |-> FALSE, error |-> "", file |-> <<>>, generated_password |-> None,
     password |-> None, drawn |-> 0, op |-> "none", root |-> NoId,
     encryption_method |-> "none", full |-> FALSE,
     counts |-> [nodes |-> 0, edges |-> 0, contexts |-> 0, variables |-> 0,
                 commands |-> 0, findings |-> 0, scope_assets |-> 0, values |-> <<>>],
     previous |-> None]

\* ------------------------------------------------------ legacy documents

NodeA == LegacyNode(1, <<1>>, 1)
NodeB == LegacyNode(2, <<2>>, 0)
Nameless == LegacyNode(3, <<>>, 0)
EdgeAB == LegacyEdge(1, NodeA.id, NodeB.id)
EdgeBA == LegacyEdge(2, NodeB.id, NodeA.id)
Dangling == LegacyEdge(3, NodeA.id, Nameless.id + 1)

\* the legacy documents of the runs
LegacyDocs ==
    { LegacyProject(<<nodes>>, <<edges>>, <<>>, <<>>) :
        nodes \in {<<NodeA, NodeB>>, <<NodeA, Nameless>>, <<NodeA>>},
        edges \in {<<EdgeAB>>, <<EdgeAB, Dangling>>, <<Dangling, EdgeBA>>} }
    \cup { LegacyProject(<<>>, <<>>, <<LegacyFlowData(<<NodeA, NodeB>>, <<EdgeAB>>)>>,
                         <<LegacyTemplate(LegacyFlowData(<<>>, <<>>))>>),
           LegacyProject(<<>>, <<>>, <<>>,
                         <<LegacyTemplate(LegacyFlowData(<<NodeB, NodeA>>, <<EdgeAB>>))>>),
           LegacyProject(<<<<NodeA, NodeB>>>>, <<<<>>>>, <<>>, <<>>),
           LegacyProject(<<>>, <<>>, <<>>, <<>>) }

\* no legacy import has been started
NoLegacy == [task |-> "none"]

\* the store as the CRUD layer made it, before any import
\* ----------------------------------------------------- concurrent imports

\* the two requests of POST /projects/import that run at the same time
Slots == {1, 2}

NoImport == [pc |-> 0]

NoImports == [slot \in Slots |-> NoImport]

\* the containers of the concurrent imports: a well-formed one, one with two
\* nodes of one id, one whose variable names a Context of the initial store
ConcurrentFiles ==
    { Zip(<<Metadata("pwnflow-project", "1.0")>>, <<d>>, <<>>, <<>>, <<>>) :
        d \in { GoodData,
                [GoodData EXCEPT !.nodes = <<Node(1), Node(1)>>,
                                 !.relationships = <<Rel(1, 1)>>, !.findings = <<>>],
                [GoodData EXCEPT !.variables = <<Var(4, VictimContext)>>] } }

InitCraft ==
    /\ store = InitStore
    /\ before = InitStore
    /\ uuid = 0
    /\ exported = NoExport
    /\ result = [op |-> "none"]
    /\ ops = 0
    /\ legacy = NoLegacy
    /\ imports = NoImports

\* the same, or the store one earlier import of a hand-made file has left
Init ==
    \E earlier \in {[store |-> InitStore, uuid |-> 0]} \cup
                   { import_project(InitStore, 0, file, user_id, None, "new", NoId) :
                       file \in Uploads, user_id \in Users } :
        /\ store = earlier.store
        /\ before = earlier.store
        /\ uuid = earlier.uuid
        /\ exported = NoExport
        /\ result = [op |-> "none"]
        /\ ops = 0
        /\ legacy = NoLegacy
        /\ imports = NoImports

RootIds(st) == {st.roots[i].id : i \in DOMAIN st.roots}

\* ----------------------------------------------------------------- actions

\* number of entities of each kind under a root and the values of its variables,
\* read off the store itself
EntityCounts(st, root_id) ==
    [nodes |-> Len(OfRoot(st.nodes, root_id)),
     edges |-> Len(OfRoot(st.edges, root_id)),
     contexts |-> Len(OfRoot(st.contexts, root_id)),
     variables |-> Len(OfRoot(st.variables, root_id)),
     commands |-> Len(OfRoot(st.commands, root_id)),
     findings |-> Len(OfRoot(st.findings, root_id)),
     scope_assets |-> Len(OfRoot(st.scope_assets, root_id)),
     values |-> [i \in DOMAIN OfRoot(st.variables, root_id) |->
                    OfRoot(st.variables, root_id)[i].value]]

\* the generated password the latest Generated export before this one returned
PreviousGenerated ==
    IF exported.generated_password # None THEN exported.generated_password
    ELSE exported.previous

Exported(e, op, root_id, encryption_method, full) ==
    [ok |-> e.ok, error |-> e.error,
     file |-> IF e.ok THEN e.file ELSE exported.file,
     generated_password |-> e.generated_password,
     password |-> IF e.ok THEN e.password ELSE exported.password,
     drawn |-> e.drawn, op |-> op,
     root |-> IF e.ok THEN root_id ELSE exported.root,
     encryption_method |-> encryption_method,
     full |-> IF e.ok THEN full ELSE exported.full,
     counts |-> IF e.ok THEN EntityCounts(store, root_id) ELSE exported.counts,
     previous |-> PreviousGenerated]

\* ExportOptions of the request body
ExportOptions(include_variables, include_scope) ==
    [include_variables |-> include_variables, include_scope |-> include_scope]

\* POST /projects/{project_id}/export: the endpoint hands include_variables to the
\* service and leaves include_scope at the service's default, True
ExportProject ==
    \E project_id \in RootIds(store), user_id \in Users, encryption_method \in Methods,
       password \in OptPasswords, include_variables \in BOOLEAN, include_scope \in BOOLEAN :
        LET e == export_project(store, exported.drawn, project_id, user_id,
                    encryption_method, password, include_variables, TRUE) IN
        /\ ops < MaxOps
        /\ exported' = Exported(e, "export_project", project_id, encryption_method,
                                include_variables)
        /\ result' = [op |-> "export_project", user |-> user_id, root |-> project_id,
                      file |-> e.file, error |-> e.error,
                      options |-> ExportOptions(include_variables, include_scope)]
        /\ before' = store
        /\ ops' = ops + 1
        /\ UNCHANGED <<store, uuid, legacy, imports>>

\* POST /templates/{template_id}/export
ExportTemplate ==
    \E template_id \in RootIds(store), user_id \in Users, encryption_method \in Methods,
       password \in OptPasswords :
        LET e == export_template(store, exported.drawn, template_id, user_id,
                    encryption_method, password) IN
        /\ ops < MaxOps
        /\ exported' = Exported(e, "export_template", template_id, encryption_method, TRUE)
        /\ result' = [op |-> "export_template", user |-> user_id, root |-> template_id,
                      file |-> e.file, error |-> e.error]
        /\ before' = store
        /\ ops' = ops + 1
        /\ UNCHANGED <<store, uuid, legacy, imports>>

Imported(r, op, file, user_id, password, import_mode) ==
    [op |-> op, ok |-> r.ok, error |-> r.error, root |-> r.root, user |-> user_id,
     file |-> file, password |-> password, import_mode |-> import_mode,
     data_in |-> r.data_in, uuid_map |-> r.uuid_map, data |-> r.data]

\* POST /projects/import of one of `files`
ImportProject(files, passwords, max_ops) ==
    \E file \in files, user_id \in Users, password \in passwords,
       import_mode \in {"new", "merge"}, target_project_id \in {NoId} \cup RootIds(store) :
        LET r == import_project(store, uuid, file, user_id, password,
                                import_mode, target_project_id) IN
        /\ ops < max_ops
        /\ store' = r.store
        /\ uuid' = r.uuid
        /\ result' = Imported(r, "import_project", file, user_id, password, import_mode)
        /\ before' = store
        /\ ops' = ops + 1
        /\ UNCHANGED <<exported, legacy, imports>>

\* POST /templates/import of one of `files`
ImportTemplate(files, passwords, max_ops) ==
    \E file \in files, user_id \in Users, password \in passwords :
        LET r == import_template(store, uuid, file, user_id, password) IN
        /\ ops < max_ops
        /\ store' = r.store
        /\ uuid' = r.uuid
        /\ result' = Imported(r, "import_template", file, user_id, password, "new")
        /\ before' = store
        /\ ops' = ops + 1
        /\ UNCHANGED <<exported, legacy, imports>>

\* POST /projects/import/preview and /templates/import/preview of one of `files`
PreviewImport(files, passwords, max_ops) ==
    \E file \in files, password \in passwords :
        /\ ops < max_ops
        /\ result' = [op |-> "preview_import", file |-> file, password |-> password,
                      preview |-> preview_import(file, password),
                      response |-> preview_endpoint(file, password)]
        /\ before' = store
        /\ ops' = ops + 1
        /\ UNCHANGED <<store, uuid, exported, legacy, imports>>

\* the file of the last export, downloaded and uploaded again
Files == Range(exported.file)

Next ==
    \/ ExportProject
    \/ ExportTemplate
    \/ ImportProject(Files, OptPasswords, MaxOps)
    \/ ImportTemplate(Files, OptPasswords, MaxOps)
    \/ PreviewImport(Files, OptPasswords, MaxOps)

Spec == Init /\ [][Next]_vars

\* hand-made files only
NextCraft ==
    \/ ImportProject(Crafted, {None, <<1>>}, MaxCraftOps)
    \/ ImportTemplate(Crafted, {None, <<1>>}, MaxCraftOps)
    \/ PreviewImport(Crafted, {None, <<1>>}, MaxCraftOps)

SpecCraft == InitCraft /\ [][NextCraft]_vars

\* the files of the runs over a failing graph store
FaultFiles == {file \in Crafted : file \notin Malformed /\ file.metadata[1].version = "1.0"}

\* POST /projects/import (mode New) or /templates/import while the graph store
\* fails on the fail_at-th statement of the import
ImportOverFailingStore ==
    \E file \in FaultFiles, format \in Formats, user_id \in Users, fail_at \in 1 .. MaxFailAt :
        LET r == ImportWithStoreFailure(store, uuid, file, format, user_id, None, fail_at)
            op == IF format = "pwnflow-project" THEN "import_project" ELSE "import_template"
        IN /\ ops < MaxCraftOps
           /\ store' = r.store
           /\ uuid' = r.uuid
           /\ result' = [op |-> op, ok |-> r.ok, error |-> r.error, root |-> r.root,
                         user |-> user_id, file |-> file, password |-> None,
                         import_mode |-> "new", data_in |-> r.data_in,
                         uuid_map |-> r.uuid_map, data |-> r.data,
                         fail_at |-> fail_at, errors |-> <<>>]
           /\ before' = store
           /\ ops' = ops + 1
           /\ UNCHANGED <<exported, legacy, imports>>

NextFault == ImportOverFailingStore

SpecFault == InitCraft /\ [][NextFault]_vars

\* ------------------------------------------------- legacy import: the run

Running == legacy.task # "none"

\* POST /legacy/import: the stream starts, the generator creates the task
LegacyImport ==
    \E doc \in LegacyDocs, user_id \in Users :
        /\ legacy = NoLegacy
        /\ legacy' = StartLegacy(doc, user_id)
        /\ before' = store
        /\ result' = [op |-> "import_legacy_project"]
        /\ UNCHANGED <<store, uuid, exported, ops, imports>>

\* the background task changes `legacy`, the store and the uuid counter
TaskStep(step) ==
    /\ legacy' = step.legacy
    /\ store' = step.store
    /\ uuid' = step.uuid
    /\ UNCHANGED <<before, exported, result, ops, imports>>

\* the graph store may raise, MaxStoreFailures times in a run
MayFail == IF Running /\ legacy.failures < MaxStoreFailures THEN BOOLEAN ELSE {FALSE}

TaskParse ==
    /\ Running /\ legacy.task = "parse"
    /\ TaskStep(Step(ParseLegacy(legacy), store, uuid))

TaskCreateProject ==
    /\ Running /\ legacy.task = "create_project"
    /\ \E outcome \in {"ok"} \cup (IF TRUE \in MayFail THEN {"project", "metadata"} ELSE {}) :
          TaskStep(CreateLegacyProject(legacy, store, uuid, outcome))

TaskImportNode ==
    /\ Running /\ legacy.task = "nodes" /\ legacy.i <= Len(legacy.nodes)
    /\ \E outcome \in {"ok"} \cup (IF TRUE \in MayFail THEN {"node"} ELSE {})
                      \cup (IF TRUE \in MayFail /\ legacy.nodes[legacy.i].commands > 0
                            THEN {"command"} ELSE {}) :
          TaskStep(ImportNode(legacy, store, uuid, outcome))

TaskNodesDone ==
    /\ Running /\ legacy.task = "nodes" /\ legacy.i > Len(legacy.nodes)
    /\ TaskStep(Step(NodesDone(legacy), store, uuid))

TaskImportEdge ==
    /\ Running /\ legacy.task = "edges" /\ legacy.i <= Len(legacy.edges)
    /\ \E fails \in MayFail : TaskStep(ImportEdge(legacy, store, uuid, fails))

TaskEdgesDone ==
    /\ Running /\ legacy.task = "edges" /\ legacy.i > Len(legacy.edges)
    /\ TaskStep(Step(EdgesDone(legacy), store, uuid))

TaskImportTemplate ==
    /\ Running /\ legacy.task = "template"
    /\ \E fails \in MayFail : TaskStep(_import_template(legacy, store, uuid, fails))

\* the event generator changes only `legacy`
GenStep(l) ==
    /\ legacy' = l
    /\ UNCHANGED <<store, before, uuid, exported, result, ops, imports>>

GenGet ==
    /\ Running /\ legacy.gen = "get" /\ legacy.queue > 0
    /\ GenStep(TakeProgress(legacy))

\* the one-second timeout of queue.get: the queue is empty. Heartbeats are
\* counted up to MaxHeartbeats while the task runs. The task created by
\* create_task takes its first step, up to its first store call, as soon as the
\* generator suspends in wait_for, before the timer can fire
GenTimeout ==
    /\ Running /\ legacy.gen = "get" /\ legacy.queue = 0
    /\ legacy.task # "parse"
    /\ TaskDone(legacy) \/ legacy.heartbeats < MaxHeartbeats
    /\ GenStep(Heartbeat(legacy))

GenCheck ==
    /\ Running /\ legacy.gen = "check"
    /\ GenStep(CheckTask(legacy))

\* after the progress event of 100: `result = await import_task`
GenComplete ==
    /\ Running /\ legacy.gen = "complete" /\ TaskDone(legacy)
    /\ GenStep([Emit(legacy, TerminalEvent(legacy)) EXCEPT !.gen = "done"])

Task ==
    \/ TaskParse \/ TaskCreateProject \/ TaskImportNode \/ TaskNodesDone
    \/ TaskImportEdge \/ TaskEdgesDone \/ TaskImportTemplate

Generator == GenGet \/ GenTimeout \/ GenCheck \/ GenComplete

NextLegacy == LegacyImport \/ Task \/ Generator

SpecLegacy == InitCraft /\ [][NextLegacy]_vars

\* the task runs to its end and the consumer keeps reading
SpecLegacyFair == SpecLegacy /\ WF_vars(Task) /\ WF_vars(Generator)

\* import_project up to its first store call: the container is read, the
\* identifier map drawn, the payload rewritten and the id of the root drawn,
\* without a suspension point
StartImport(slot) ==
    \E file \in ConcurrentFiles, user_id \in Users :
        LET r == import_project(store, uuid, file, user_id, None, "new", NoId) IN
        /\ imports[slot] = NoImport
        /\ r.ok
        /\ imports' = [imports EXCEPT ![slot] =
              [pc |-> 1, user |-> user_id, file |-> file, root |-> r.root,
               uuid_map |-> r.uuid_map, data |-> r.data[1],
               stmts |-> ImportStatements("pwnflow-project", r.data[1], user_id, r.root)]]
        /\ uuid' = r.uuid
        /\ UNCHANGED <<store, before, exported, result, ops, legacy>>

\* one `await session.run(...)` of _create_new_project: the statement is applied
\* to the store the other import writes to as well
RunStatement(slot) ==
    /\ imports[slot].pc >= 1
    /\ imports[slot].pc <= Len(imports[slot].stmts)
    /\ store' = Run(store, imports[slot].stmts[imports[slot].pc])
    /\ imports' = [imports EXCEPT ![slot].pc = @ + 1]
    /\ UNCHANGED <<before, uuid, exported, result, ops, legacy>>

NextConcurrent == \E slot \in Slots : StartImport(slot) \/ RunStatement(slot)

SpecConcurrent == InitCraft /\ [][NextConcurrent]_vars

\* ------------------------------------------------------------------ claims

\* what the last operation appended to a collection of the store
Added(now, was) == SubSeq(now, Len(was) + 1, Len(now))

ImportOps == {"import_project", "import_template"}

\* C1: every Variable, Command, Finding and edge an import in mode New writes
\* hangs under a Context or Node of the root that same import created, never
\* under an entity the store held before the import.
C1_ImportWritesOnlyUnderItsOwnRoot ==
    (result.op = "import_project" /\ result.ok) =>
        /\ \A v \in Range(Added(store.variables, before.variables)) : v.root = result.root
        /\ \A c \in Range(Added(store.commands, before.commands)) : c.root = result.root
        /\ \A f \in Range(Added(store.findings, before.findings)) : f.root = result.root
        /\ \A e \in Range(Added(store.edges, before.edges)) : e.root = result.root

\* C2: after generate_uuid_map and rewrite_uuids every entity has a new
\* identifier different from its old one, and no two entities of the snapshot
\* have the same new identifier.
C2_NewIdsFreshAndInjective ==
    (result.op \in ImportOps /\ result.ok) =>
        LET old == OwnedIds(result.data_in[1])
            new == OwnedIds(result.data[1])
        IN /\ \A i \in DOMAIN old : new[i] # old[i]
           /\ \A i, j \in DOMAIN new : i # j => new[i] # new[j]

\* the reference fields of a snapshot that hold an identifier
References(data) ==
    {data.relationships[i].source : i \in DOMAIN data.relationships}
    \cup {data.relationships[i].target : i \in DOMAIN data.relationships}
    \cup {data.commands[i].node_id : i \in DOMAIN data.commands}
    \cup {data.variables[i].context_id : i \in DOMAIN data.variables}
    \cup {data.findings[i].node_id : i \in DOMAIN data.findings}

\* C3: the rewritten snapshot holds no reference whose value is not a new
\* identifier of the map: an entity whose reference is no key of the map is
\* dropped from it.
C3_NoDanglingReferenceAfterRewrite ==
    (result.op \in ImportOps /\ result.ok) =>
        \A ref \in References(result.data[1]) \ {NoId} : ref \in Range(result.uuid_map)

Encrypted(file) == file.zip = "zip" /\ file.data_enc # <<>>

\* C4: an import of an encrypted container the program exported, given no
\* password or a password other than the one it was exported with, fails and
\* writes nothing to the store.
C4_WrongPasswordImportWritesNothing ==
    (/\ result.op \in ImportOps
     /\ result.file \in Files
     /\ Encrypted(result.file)
     /\ (NotPassword(result.password) \/ result.password # exported.password)) =>
        ~result.ok /\ store = before

\* C5: decrypt_data gives back the payload of encrypt_data under the password
\* it was encrypted with, and fails under every other password.
C5_OnlyTheExportPasswordDecrypts ==
    \A file \in Files :
        Encrypted(file) =>
            \A password \in Passwords \cup {exported.password} :
                LET dec == decrypt_data(file.data_enc[1], password,
                                        file.salt_bin[1], file.nonce_bin[1])
                IN IF password = exported.password
                   THEN dec.ok /\ dec.plaintext = <<file.data_enc[1].plaintext>>
                   ELSE ~dec.ok

\* the references of the entities of one root that name no Node or Context of it
Unresolved(st, root_id) ==
    LET nodes == {n.id : n \in Range(OfRoot(st.nodes, root_id))}
        contexts == {c.id : c \in Range(OfRoot(st.contexts, root_id))}
    IN {e \in Range(OfRoot(st.edges, root_id)) :
            e.source \notin nodes \/ e.target \notin nodes}
       \cup {c \in Range(OfRoot(st.commands, root_id)) : c.node \notin nodes}
       \cup {f \in Range(OfRoot(st.findings, root_id)) : f.node \notin nodes}
       \cup {v \in Range(OfRoot(st.variables, root_id)) : v.context \notin contexts}

\* C6: a full export of a project followed by its import in mode New by user U
\* leaves a new project owned by U with as many nodes, edges, contexts,
\* variables, commands, findings and scope assets as the exported one, the same
\* variable values, and every reference resolving inside the new project.
C6_ExportImportRoundTrip ==
    (/\ result.op = "import_project"
     /\ result.import_mode = "new"
     /\ result.file \in Files
     /\ result.file.metadata[1].format = "pwnflow-project"
     /\ exported.full
     /\ (~Encrypted(result.file) \/ result.password = exported.password)) =>
        /\ result.ok
        /\ \E i \in DOMAIN store.roots :
              /\ i > Len(before.roots)
              /\ store.roots[i] = [id |-> result.root, kind |-> "Project",
                                   owner |-> result.user, is_public |-> FALSE]
        /\ EntityCounts(store, result.root) = exported.counts
        /\ Unresolved(store, result.root) = {}

ExportOps == {"export_project", "export_template"}

\* C7: a successful export returns a password exactly when its mode is
\* Generated; the returned password decrypts the container it came with; and it
\* is not the password an earlier Generated export returned.
C7_GeneratedPasswordReturned ==
    (result.op \in ExportOps /\ exported.ok) =>
        /\ (exported.generated_password # None) <=> (exported.encryption_method = "generated")
        /\ exported.generated_password # None =>
              /\ \A file \in Files :
                    /\ Encrypted(file)
                    /\ decrypt_data(file.data_enc[1], exported.generated_password,
                                    file.salt_bin[1], file.nonce_bin[1]).ok
              /\ exported.generated_password # exported.previous

C7_SecondGeneratedExport ==
    /\ result.op \in ExportOps
    /\ exported.ok
    /\ exported.encryption_method = "generated"
    /\ exported.previous # None

\* what the format check of an import of `format` has to reject
FormatError(file, format) ==
    \/ file \in Malformed
    \/ file.metadata[1].version # "1.0"
    \/ file.metadata[1].format # format

ImportFormat(op) == IF op = "import_project" THEN "pwnflow-project" ELSE "pwnflow-template"

\* C8: an import of a malformed container, of one whose schema version is not
\* "1.0", or of one whose format tag is not the endpoint's fails and leaves
\* the store as it was.
C8_FormatErrorWritesNothing ==
    (result.op \in ImportOps /\ FormatError(result.file, ImportFormat(result.op))) =>
        ~result.ok /\ store = before

\* C9: preview_import of a malformed container returns an error result and
\* never lets an exception out.
C9_PreviewOfMalformedIsAnError ==
    (result.op = "preview_import" /\ result.file \in Malformed) =>
        result.preview.kind = "error"

\* C10: a preview of a well-formed encrypted container without a password
\* gives the caller the container's metadata with "Password required", at the
\* service and at the preview endpoints, and decrypts nothing.
C10_PreviewWithoutPasswordGivesMetadata ==
    (/\ result.op = "preview_import"
     /\ Encrypted(result.file)
     /\ result.file \in Files
     /\ NotPassword(result.password)) =>
        /\ result.preview.kind = "error"
        /\ result.preview.error = "Password required for encrypted file"
        /\ result.preview.metadata = result.file.metadata
        /\ ~result.preview.decrypted
        /\ result.response.metadata = result.file.metadata

\* the statements an import has issued when result.fail_at was the failing one
IssuedStatements ==
    ImportStatements(ImportFormat(result.op), result.data[1], result.user,
                     Uuid4(uuid - 1))

\* C11: when the graph store fails on the create of one entity of a container
\* import, the import goes on with the next entity, records the failure in
\* its error list and returns the new root id, every other entity created.
C11_EntityFailureDoesNotAbortImport ==
    (/\ result.op \in ImportOps
     /\ "fail_at" \in DOMAIN result
     /\ result.data # <<>>
     /\ result.fail_at \in 2 .. Len(IssuedStatements)) =>
        /\ result.ok
        /\ result.root # NoId
        /\ Len(result.errors) = 1
        /\ store = RunAll(RunAll(before, SubSeq(IssuedStatements, 1, result.fail_at - 1)),
                          SubSeq(IssuedStatements, result.fail_at + 1, Len(IssuedStatements)))

\* the entries of one kind in an errors or warnings list
OfKind(entries, kind) == {i \in DOMAIN entries : entries[i].kind = kind}

\* the legacy node has been written under the project of the run
Written(l, st, legacy_node) ==
    /\ legacy_node.id \in DOMAIN l.node_mappings
    /\ \E k \in DOMAIN st.nodes :
          st.nodes[k] = [id |-> l.node_mappings[legacy_node.id], root |-> l.project_id]

\* C12: a failure of the graph store on one node or one edge of a legacy
\* import is appended to errors and does not end the task: when the task has
\* returned, every node and edge has been processed (written, or listed in
\* errors or warnings) and the ImportResult of the complete event lists the
\* failure.
C12_LegacyEntityFailureIsAccumulated ==
    Running =>
        /\ (OfKind(legacy.errors, "Node") \cup OfKind(legacy.errors, "Edge") # {})
              => legacy.task # "raised"
        /\ legacy.task = "returned" =>
              /\ \A i \in DOMAIN legacy.nodes :
                    \/ Written(legacy, store, legacy.nodes[i])
                    \/ \E k \in OfKind(legacy.errors, "Node") :
                          legacy.errors[k].id = legacy.nodes[i].id
              /\ legacy.progress.processed_edges
                   + Cardinality(OfKind(legacy.errors, "Edge"))
                   + Cardinality(OfKind(legacy.warnings, "Edge")) = Len(legacy.edges)
              /\ Cardinality(OfKind(legacy.errors, "Node") \cup OfKind(legacy.errors, "Edge"))
                   = legacy.failures - Cardinality(OfKind(legacy.warnings, "Template"))
        /\ \A k \in DOMAIN legacy.events :
              legacy.events[k].type = "complete" =>
                  legacy.events[k].result[1].errors = legacy.errors

\* the store failed on the first node, the second was written, the stream completed
C12_FailedNodeThenCompleted ==
    /\ Running
    /\ legacy.gen = "done"
    /\ legacy.task = "returned"
    /\ Len(legacy.nodes) = 2
    /\ legacy.errors = <<[kind |-> "Node", id |-> legacy.nodes[1].id]>>
    /\ Written(legacy, store, legacy.nodes[2])
    /\ legacy.events[Len(legacy.events)].type = "complete"

\* C13: an import_project call in a mode other than New whose container was
\* read gets a NotImplemented error, with or without a target project, and
\* writes nothing to the store.
C13_MergeIsNotImplemented ==
    (/\ result.op = "import_project"
     /\ "fail_at" \notin DOMAIN result
     /\ result.import_mode # "new"
     /\ result.data_in # <<>>) =>
        /\ ~result.ok
        /\ result.error = "NotImplementedError"
        /\ store = before

\* the payload a container of the program carries, plain or inside data.enc
Payload(file) ==
    IF file.data_json # <<>> THEN file.data_json[1] ELSE file.data_enc[1].plaintext

C15_ExportOptionsAreHonoured ==
    (result.op = "export_project" /\ exported.ok) =>
        \A file \in Files :
            /\ Payload(file).variables =
                  IF result.options.include_variables
                  THEN VariableRows(store, exported.root) ELSE <<>>
            /\ Payload(file).scope_assets =
                  IF result.options.include_scope
                  THEN ScopeRows(store, exported.root) ELSE <<>>
            /\ Payload(file).nodes = NodeRows(store, exported.root)
            /\ Payload(file).relationships = RelRows(store, exported.root)
            /\ Payload(file).commands = CommandRows(store, exported.root)

\* an export asked to leave the scope out carries the project's scope assets
C15_ScopeExportedAgainstTheOption ==
    /\ result.op = "export_project"
    /\ exported.ok
    /\ ~result.options.include_scope
    /\ \E file \in Files : Payload(file).scope_assets # <<>>

\* the last operation was an export of a root the caller may not read
RefusedExport ==
    \/ /\ result.op = "export_project"
       /\ \A i \in DOMAIN store.roots :
             store.roots[i].id = result.root => store.roots[i].owner # result.user
    \/ /\ result.op = "export_template"
       /\ \A i \in DOMAIN store.roots :
             store.roots[i].id = result.root =>
                 store.roots[i].owner # result.user /\ ~store.roots[i].is_public

\* ids of the nodes and of the contexts the store holds under a root
NodeIdsOf(root_id) == {OfRoot(store.nodes, root_id)[i].id : i \in DOMAIN OfRoot(store.nodes, root_id)}

ContextIdsOf(root_id) == {OfRoot(store.contexts, root_id)[i].id : i \in DOMAIN OfRoot(store.contexts, root_id)}

\* every row of a payload is an entity the store holds under the root
BelongsTo(data, root_id) ==
    /\ \A i \in DOMAIN data.nodes : data.nodes[i].id \in NodeIdsOf(root_id)
    /\ \A i \in DOMAIN data.relationships :
          /\ data.relationships[i].source \in NodeIdsOf(root_id)
          /\ data.relationships[i].target \in NodeIdsOf(root_id)
    /\ \A i \in DOMAIN data.contexts : data.contexts[i].id \in ContextIdsOf(root_id)
    /\ \A i \in DOMAIN data.variables :
          \E j \in DOMAIN store.variables :
              /\ store.variables[j].id = data.variables[i].id
              /\ store.variables[j].root = root_id
              /\ store.variables[j].context \in ContextIdsOf(root_id)
    /\ \A i \in DOMAIN data.commands :
          \E j \in DOMAIN store.commands :
              /\ store.commands[j].id = data.commands[i].id
              /\ store.commands[j].root = root_id
              /\ store.commands[j].node \in NodeIdsOf(root_id)
    /\ \A i \in DOMAIN data.findings :
          \E j \in DOMAIN store.findings :
              /\ store.findings[j].id = data.findings[i].id
              /\ store.findings[j].root = root_id
    /\ \A i \in DOMAIN data.scope_assets :
          \E j \in DOMAIN store.scope_assets :
              /\ store.scope_assets[j].id = data.scope_assets[i].id
              /\ store.scope_assets[j].root = root_id

\* C16: an export of a project the caller does not own, or of a template the
\* caller does not own and that is not public, fails with the not-found or
\* access-denied error and returns no container file; every entity in the
\* payload of a successful export is held by the store under the exported root.
C16_ExportIsScopedToTheCallersRoot ==
    /\ RefusedExport =>
          /\ ~exported.ok
          /\ result.file = <<>>
          /\ result.error = "not found or access denied"
    /\ (result.op \in {"export_project", "export_template"} /\ exported.ok) =>
          \A i \in DOMAIN result.file : BelongsTo(Payload(result.file[i]), result.root)

\* what holds of a refused export: it fails and returns no container file, and
\* its error is the not-found or access-denied one unless the request asks for
\* the password method without a password, which export_project and
\* export_template reject before they look the root up
C16_RefusedExportFailsWithoutFile ==
    /\ RefusedExport =>
          /\ ~exported.ok
          /\ result.file = <<>>
          /\ result.error \in {"not found or access denied",
                               "Password required for password encryption method"}
          /\ (result.error = "Password required for password encryption method"
                 => exported.encryption_method = "password")
    /\ (result.op \in {"export_project", "export_template"} /\ exported.ok) =>
          \A i \in DOMAIN result.file : BelongsTo(Payload(result.file[i]), result.root)

\* a user who does not own the project has asked for its export and got the
\* access-denied error
C16_ForeignProjectExportRefused ==
    /\ result.op = "export_project"
    /\ RefusedExport
    /\ result.error = "not found or access denied"

\* the nodes of the document of the run, well-formed or not
DocumentNodes == _extract_nodes_and_edges(legacy.doc).nodes

\* the run is over a document with a node record that has no name, and the
\* graph store has not failed during it
MalformedNodeRun ==
    /\ Running
    /\ legacy.failures = 0
    /\ \E i \in DOMAIN DocumentNodes : DocumentNodes[i].name = <<>>

\* C17: a node record with no name does not abort a legacy import: once the
\* task is over it has returned (Completed), every well-formed node of the
\* document is written under the new project, and the malformed record is
\* listed in warnings.
C17_MalformedNodeDoesNotAbort ==
    (MalformedNodeRun /\ TaskDone(legacy)) =>
        /\ legacy.task = "returned"
        /\ \A i \in DOMAIN DocumentNodes :
              IF DocumentNodes[i].name # <<>>
              THEN Written(legacy, store, DocumentNodes[i])
              ELSE \E k \in DOMAIN legacy.warnings :
                      legacy.warnings[k].id = DocumentNodes[i].id

\* the document with a nameless node was refused whole: the task raised, no
\* project and no node was written, the stream ended with an error event
C17_MalformedNodeAbortsTheImport ==
    /\ MalformedNodeRun
    /\ legacy.task = "raised"
    /\ legacy.gen = "done"
    /\ store = before
    /\ legacy.warnings = <<>>
    /\ legacy.events[Len(legacy.events)].type = "error"

\* ids of the nodes of the document the task works on
DocumentNodeIds == {legacy.nodes[i].id : i \in DOMAIN legacy.nodes}

\* an edge whose source or target is not a node of the document
DanglingEdge(legacy_edge) ==
    legacy_edge.source \notin DocumentNodeIds \/ legacy_edge.target \notin DocumentNodeIds

\* indices of the edges the loop of _import_edges has gone through
ProcessedEdges ==
    IF legacy.task = "edges" THEN 1 .. (legacy.i - 1)
    ELSE IF legacy.task \in {"template", "returned"} THEN DOMAIN legacy.edges
    ELSE {}

\* new ids the run has given to the nodes of the document
MappedIds == {legacy.node_mappings[id] : id \in DOMAIN legacy.node_mappings}

\* C18: for every legacy edge whose source or target is not a node of the
\* document, the import writes no relationship, appends exactly one entry to
\* warnings and none to errors, goes on with the remaining edges, and the task
\* still returns (Completed).
C18_DanglingEdgeIsOneWarning ==
    Running =>
        /\ \A j \in ProcessedEdges :
              DanglingEdge(legacy.edges[j]) =>
                  /\ Cardinality({k \in OfKind(legacy.warnings, "Edge") :
                                     legacy.warnings[k].id = legacy.edges[j].id}) = 1
                  /\ \A k \in OfKind(legacy.errors, "Edge") :
                        legacy.errors[k].id # legacy.edges[j].id
                  /\ legacy.edges[j].id \notin DOMAIN legacy.edge_mappings
        /\ \A k \in DOMAIN store.edges :
              (legacy.project_id # NoId /\ store.edges[k].root = legacy.project_id) =>
                  \E j \in ProcessedEdges :
                      /\ ~DanglingEdge(legacy.edges[j])
                      /\ store.edges[k].source = legacy.node_mappings[legacy.edges[j].source]
                      /\ store.edges[k].target = legacy.node_mappings[legacy.edges[j].target]
        /\ OfKind(legacy.warnings, "Edge") # {} => legacy.task # "raised"
        /\ legacy.task = "returned" =>
              Cardinality(OfKind(legacy.warnings, "Edge"))
                  = Cardinality({j \in DOMAIN legacy.edges : DanglingEdge(legacy.edges[j])})

\* the first edge of the document had a missing end and gave one warning, the
\* second was written, and the task returned
C18_DanglingEdgeThenWrittenEdge ==
    /\ Running
    /\ legacy.task = "returned"
    /\ Len(legacy.edges) = 2
    /\ DanglingEdge(legacy.edges[1])
    /\ legacy.warnings = <<[kind |-> "Edge", id |-> legacy.edges[1].id]>>
    /\ legacy.errors = <<>>
    /\ legacy.progress.processed_edges = 1
    /\ \E k \in DOMAIN store.edges : store.edges[k].root = legacy.project_id

\* positions of the progress events of the stream, of those at 100, of the terminal ones
ProgressEvents == {k \in DOMAIN legacy.events : legacy.events[k].type = "progress"}

HundredEvents == {k \in ProgressEvents : legacy.events[k].percentage = 100}

TerminalEvents == {k \in DOMAIN legacy.events : legacy.events[k].type \in {"complete", "error"}}

\* C19: in every interleaving of the import task and the event generator the
\* percentages of the emitted progress events never decrease, and the finished
\* stream holds exactly one progress event at 100 and exactly one terminal
\* event, which comes right after it.
C19_PercentagesRiseToOneHundredOnce ==
    Running =>
        /\ \A j, k \in ProgressEvents :
              j < k => legacy.events[j].percentage <= legacy.events[k].percentage
        /\ legacy.gen = "done" =>
              /\ Cardinality(HundredEvents) = 1
              /\ Cardinality(TerminalEvents) = 1
              /\ \A k \in HundredEvents : k + 1 \in TerminalEvents

\* the task returned its result and the stream completed after a heartbeat,
\* with no progress event at 100
C19_CompletedWithoutOneHundred ==
    /\ Running
    /\ legacy.gen = "done"
    /\ legacy.task = "returned"
    /\ legacy.events[Len(legacy.events)].type = "complete"
    /\ HundredEvents = {}

\* what holds of the percentages: they never decrease, at most one progress
\* event is at 100 and a complete event follows it at once, and the finished
\* stream holds one terminal event
C19_PercentagesRiseAndEndOnce ==
    Running =>
        /\ \A j, k \in ProgressEvents :
              j < k => legacy.events[j].percentage <= legacy.events[k].percentage
        /\ Cardinality(HundredEvents) <= 1
        /\ legacy.gen = "done" =>
              /\ Cardinality(TerminalEvents) = 1
              /\ \A k \in HundredEvents :
                    k + 1 \in TerminalEvents /\ legacy.events[k + 1].type = "complete"

\* at most one terminal event has been emitted, it is the last event of the
\* stream, and a complete event carries the ImportResult of the task
EndsAtMostOnce ==
    /\ Cardinality(TerminalEvents) <= 1
    /\ \A k \in TerminalEvents :
          /\ k = Len(legacy.events)
          /\ legacy.gen = "done"
          /\ legacy.events[k].type = "complete" =>
                /\ legacy.task = "returned"
                /\ legacy.events[k].result = <<ImportResult(legacy)>>
          /\ legacy.events[k].type = "error" => legacy.task = "raised"

\* the generator has left its loop after its one terminal event
StreamEnded ==
    /\ Running
    /\ legacy.gen = "done"
    /\ Cardinality(TerminalEvents) = 1

\* C20: when the task terminates and the consumer keeps reading, the stream of
\* a legacy import eventually emits a terminal event (complete with the
\* ImportResult of the task, or error), emits exactly one, and emits nothing
\* after it, however many progress updates are still unread in the queue.
C20_StreamEndsWithOneTerminalEvent ==
    /\ [](Running => EndsAtMostOnce)
    /\ [](Running /\ legacy.gen = "done" => StreamEnded)
    /\ (Running ~> StreamEnded)

\* the stream ended with its terminal event while updates were still unread
C20_EndedWithUnreadUpdates ==
    /\ StreamEnded
    /\ legacy.queue > 1
    /\ legacy.events[Len(legacy.events)].type \in {"complete", "error"}

\* the creation of the root project failed in this run
RootCreationFailed ==
    /\ Running
    /\ \E k \in DOMAIN legacy.errors :
          legacy.errors[k].kind = "Import failed" /\ legacy.errors[k].id = "create_project"

C22_ProducerNeverWaitsOnBoundedQueue ==
    Running =>
        /\ ~TaskDone(legacy) => ENABLED Task
        /\ maxsize > 0
        /\ legacy.queue <= maxsize

\* what holds of the producer: a step of the task is possible in every state
\* where the task has not ended, whatever the queue holds
C22_ProducerNeverWaits ==
    (Running /\ ~TaskDone(legacy)) => ENABLED Task

\* the consumer has read nothing and the task has returned: one pending update
\* for each of the five steps of the run and for every node and edge written
C22_PendingUpdatesGrowWithTheDocument ==
    /\ Running
    /\ legacy.task = "returned"
    /\ legacy.events = <<>>
    /\ Len(legacy.nodes) = 2
    /\ legacy.queue = 5 + legacy.progress.processed_nodes + legacy.progress.processed_edges
    /\ legacy.queue >= 8

\* the import of a slot has issued all its statements
ImportEnded(slot) == imports[slot].pc >= 1 /\ imports[slot].pc = Len(imports[slot].stmts) + 1

\* the new identifiers of the import of a slot, its root included
NewIds(slot) ==
    {imports[slot].root}
        \cup {imports[slot].uuid_map[id] : id \in DOMAIN imports[slot].uuid_map}

\* what the store holds under the root of a slot is what the container of the
\* slot holds, rewritten: its nodes, edges, contexts, variables, commands, findings
HoldsItsContainer(slot) ==
    LET root == imports[slot].root
        data == imports[slot].data
    IN /\ NodeRows(store, root) = [i \in DOMAIN data.nodes |-> [id |-> data.nodes[i].id]]
       /\ RelRows(store, root) = data.relationships
       /\ ContextRows(store, root) = [i \in DOMAIN data.contexts |-> [id |-> data.contexts[i].id]]
       /\ VariableRows(store, root) = data.variables
       /\ CommandRows(store, root) = data.commands
       /\ FindingRows(store, root) = data.findings

\* no record the store holds under the root of `slot` names an identifier the
\* import of `other` has made
SharesNothing(slot, other) ==
    LET root == imports[slot].root
        theirs == NewIds(other)
    IN /\ NewIds(slot) \cap theirs = {}
       /\ \A i \in DOMAIN store.nodes :
             store.nodes[i].root = root => store.nodes[i].id \notin theirs
       /\ \A i \in DOMAIN store.edges :
             store.edges[i].root = root =>
                 store.edges[i].source \notin theirs /\ store.edges[i].target \notin theirs
       /\ \A i \in DOMAIN store.contexts :
             store.contexts[i].root = root => store.contexts[i].id \notin theirs
       /\ \A i \in DOMAIN store.variables :
             store.variables[i].root = root =>
                 store.variables[i].id \notin theirs /\ store.variables[i].context \notin theirs
       /\ \A i \in DOMAIN store.commands :
             store.commands[i].root = root =>
                 store.commands[i].id \notin theirs /\ store.commands[i].node \notin theirs
       /\ \A i \in DOMAIN store.findings :
             store.findings[i].root = root =>
                 store.findings[i].id \notin theirs /\ store.findings[i].node \notin theirs

\* C23: two container imports whose store calls interleave in any order, of
\* the same or of different containers, by the same or by different users,
\* each produce a root that holds exactly the nodes, edges, contexts,
\* variables, commands and findings of its own container; the two identifier
\* maps share no new identifier and no entity of one import is attached to the
\* root or to an entity of the other.
C23_ConcurrentImportsAreIsolated ==
    (\A slot \in Slots : ImportEnded(slot)) =>
        /\ \A slot \in Slots : HoldsItsContainer(slot)
        /\ SharesNothing(1, 2)
        /\ SharesNothing(2, 1)

\* what holds whatever the containers: the two imports share no identifier and
\* no record of one is attached to the root or to an entity of the other
C23_ConcurrentImportsShareNothing ==
    (\A slot \in Slots : imports[slot].pc >= 1) =>
        SharesNothing(1, 2) /\ SharesNothing(2, 1)

\* what holds of well-formed containers: each root holds its own container
C23_WellFormedConcurrentImports ==
    (\A slot \in Slots : ImportEnded(slot) /\ imports[slot].file.data_json = <<GoodData>>) =>
        \A slot \in Slots : HoldsItsContainer(slot)

\* two imports of the well-formed container by different users have both ended
C23_TwoInterleavedImportsEnded ==
    /\ \A slot \in Slots : ImportEnded(slot) /\ imports[slot].file.data_json = <<GoodData>>
    /\ imports[1].user # imports[2].user
    /\ imports[1].root > imports[2].root

\* the identifier map after the first k insertions of generate_uuid_map over
\* the entities `ids`, n uuids drawn before
MapAfter(ids, k, n) == AssignUuids(SubSeq(ids, 1, k), <<>>, n)

\* no insertion changes the value of a key the map already holds
WriteOnce(ids, n) ==
    \A k \in 1 .. Len(ids) :
        \A old_id \in DOMAIN MapAfter(ids, k - 1, n) :
            MapAfter(ids, k, n)[old_id] = MapAfter(ids, k - 1, n)[old_id]

\* number of nodes the loop of _import_nodes has gone through, each with one
\* assignment to node_mappings
NodesVisited ==
    IF legacy.task = "nodes" THEN legacy.i - 1
    ELSE IF legacy.task \in {"edges", "template", "returned"} THEN Len(legacy.nodes)
    ELSE 0

\* C24: within one import each old identifier is inserted into the identifier
\* map at most once and its value never changes afterwards: in
\* generate_uuid_map over all the entities of a container, and in
\* node_mappings of a legacy import, also when two entities have one identifier.
C24_IdentifierMapIsWriteOnce ==
    /\ (result.op \in ImportOps /\ result.ok) =>
          /\ WriteOnce(OwnedIds(result.data_in[1]),
                       uuid - Len(OwnedIds(result.data_in[1])) - 1)
          /\ result.uuid_map = MapAfter(OwnedIds(result.data_in[1]),
                                        Len(OwnedIds(result.data_in[1])),
                                        uuid - Len(OwnedIds(result.data_in[1])) - 1)
    /\ Running => Cardinality(DOMAIN legacy.node_mappings) = NodesVisited

\* the place of a create operation in the order the specification gives:
\* root, nodes, edges, contexts, variables, commands, findings, scope assets
SpecifiedRank(op) ==
    CASE op = "create_root" -> 1
      [] op = "create_node" -> 2
      [] op = "create_rel" -> 3
      [] op = "create_context" -> 4
      [] op = "create_variable" -> 5
      [] op = "create_command" -> 6
      [] op = "create_finding" -> 7
      [] op = "create_scope_asset" -> 8

\* its place in the order of _create_new_project: the variables come after
\* the findings
IssuedRank(op) ==
    CASE op = "create_root" -> 1
      [] op = "create_node" -> 2
      [] op = "create_rel" -> 3
      [] op = "create_context" -> 4
      [] op = "create_command" -> 5
      [] op = "create_finding" -> 6
      [] op = "create_variable" -> 7
      [] op = "create_scope_asset" -> 8

\* the create operations an import has issued so far, in the order of issue
IssuedBy(slot) ==
    IF imports[slot].pc = 0 THEN <<>>
    ELSE SubSeq(imports[slot].stmts, 1, imports[slot].pc - 1)

\* C25: one container import issues its create operations in the order root,
\* nodes, edges, contexts followed by their variables, commands, findings,
\* scope assets.
C25_CreatesInSpecifiedOrder ==
    \A slot \in Slots :
        \A i, j \in DOMAIN IssuedBy(slot) :
            i < j => SpecifiedRank(IssuedBy(slot)[i].op) <= SpecifiedRank(IssuedBy(slot)[j].op)

\* C25, amended: one container import issues its create operations in the
\* order root, nodes, edges, contexts, commands, findings, variables, scope
\* assets: the variables come after the commands and the findings, still after
\* every context, and the root is the first operation.
C25_CreatesInDependencyOrder ==
    \A slot \in Slots :
        /\ \A i, j \in DOMAIN IssuedBy(slot) :
              i < j => IssuedRank(IssuedBy(slot)[i].op) <= IssuedRank(IssuedBy(slot)[j].op)
        /\ IssuedBy(slot) # <<>> =>
              /\ IssuedBy(slot)[1].op = "create_root"
              /\ IssuedBy(slot)[1].id = imports[slot].root

\* an import has issued a create operation of every kind, its last one included
C25_EveryKindIssued ==
    \E slot \in Slots :
        /\ ImportEnded(slot)
        /\ {IssuedBy(slot)[i].op : i \in DOMAIN IssuedBy(slot)} =
              {"create_root", "create_node", "create_rel", "create_context",
               "create_command", "create_finding", "create_variable", "create_scope_asset"}

\* the step of the run the task is in: Initializing 1 (Extracting 2 is passed
\* inside the first segment of the task), CreatingRoot 3, ImportingNodes 4,
\* ImportingEdges 5, ImportingTemplate 6, Completed 7, Failed 8
StepRank(task) ==
    CASE task = "parse" -> 1
      [] task = "create_project" -> 3
      [] task = "nodes" -> 4
      [] task = "edges" -> 5
      [] task = "template" -> 6
      [] task = "returned" -> 7
      [] task = "raised" -> 8

\* number of progress updates the task has put on the queue so far
Puts(l) ==
    l.queue + Cardinality({k \in DOMAIN l.events : l.events[k].type = "progress"})

\* steps entered by a passage of the task: Extracting and CreatingRoot when it
\* leaves Initializing for CreatingRoot, one step otherwise
StepsEntered(from, to) == IF from = "parse" /\ to = "create_project" THEN 2 ELSE 1

\* a passage from one step to a later one, never from Completed or Failed,
\* into ImportingTemplate exactly when the document has a template
ForwardStep ==
    /\ StepRank(legacy'.task) > StepRank(legacy.task)
    /\ ~TaskDone(legacy)
    /\ legacy'.task = "template" => legacy.doc.template # <<>>
    /\ (legacy.task = "edges" /\ legacy'.task = "returned") => legacy.doc.template = <<>>

HeartbeatEvents == {k \in DOMAIN legacy.events : legacy.events[k].type = "heartbeat"}

\* the generator leaves its wait on the queue while the queue is empty: the
\* one-second timeout of wait_for has passed without an update
TimedOut == legacy.task # "none" /\ legacy.gen = "get" /\ legacy.queue = 0 /\ legacy'.gen # "get"

\* C27: while the stream has not emitted its terminal event, a wait of the
\* generator that ends without a progress update (the timeout of one second)
\* emits one heartbeat event, a heartbeat is emitted on no other occasion, and
\* every heartbeat comes before the terminal event.
C27_HeartbeatOnEveryTimeoutOnly ==
    /\ [][TimedOut => legacy'.events = Append(legacy.events, Event("heartbeat", -1, <<>>))]_vars
    /\ [][(legacy.task # "none" /\ Len(legacy'.events) > Len(legacy.events)
              /\ legacy'.events[Len(legacy'.events)].type = "heartbeat") => TimedOut]_vars
    /\ [](Running => \A k \in HeartbeatEvents : \A t \in TerminalEvents : k < t)
    /\ [](Running /\ legacy.gen = "done" => legacy.events[Len(legacy.events)].type # "heartbeat")

\* a heartbeat was emitted while the task was at work, and the stream went on
\* to a progress event and its terminal event
C27_HeartbeatThenProgressThenEnd ==
    /\ Running
    /\ legacy.gen = "done"
    /\ \E k \in HeartbeatEvents : \E j \in ProgressEvents : k < j
    /\ TerminalEvents # {}

\* the node array of the first recognized location of the document that holds
\* one: top-level nodes, flowData.nodes, template.flowData.nodes
LocatedNodes(doc) ==
    IF Truthy(doc.nodes) THEN doc.nodes[1]
    ELSE IF doc.flowData # <<>> THEN doc.flowData[1].nodes
    ELSE IF doc.template # <<>> THEN doc.template[1].flowData.nodes
    ELSE <<>>

\* C28: the import takes the nodes of the recognized location of the document
\* that holds its node array and sets total_nodes to their number, whatever
\* the edge array of that location holds, also when it is empty or absent.
C28_NodesTakenWhateverTheEdges ==
    (Running /\ legacy.progress.percentage >= 20) =>
        /\ legacy.nodes = LocatedNodes(legacy.doc)
        /\ legacy.progress.total_nodes = Len(LocatedNodes(legacy.doc))

\* the document has two top-level nodes and an empty edge array, and the run
\* completed with no node imported
C28_TopLevelNodesDropped ==
    /\ Running
    /\ legacy.task = "returned"
    /\ Truthy(legacy.doc.nodes)
    /\ legacy.progress.total_nodes = 0
    /\ store.nodes = before.nodes

\* what holds: the nodes are those of the located array unless they are
\* top-level nodes beside an empty or absent top-level edge array
C28_NodesTakenUnlessTopLevelWithoutEdges ==
    (Running /\ legacy.progress.percentage >= 20
        /\ (Truthy(legacy.doc.nodes) => Truthy(legacy.doc.edges))) =>
        /\ legacy.nodes = LocatedNodes(legacy.doc)
        /\ legacy.progress.total_nodes = Len(LocatedNodes(legacy.doc))

\* ids of the legacy nodes whose Node the store holds under the new project
CreatedNodes ==
    {legacy.nodes[i].id : i \in {j \in DOMAIN legacy.nodes : Written(legacy, store, legacy.nodes[j])}}

\* the store holds a relationship between the new nodes of the ends of the edge
RelationshipCreated(legacy_edge) ==
    /\ legacy_edge.source \in DOMAIN legacy.node_mappings
    /\ legacy_edge.target \in DOMAIN legacy.node_mappings
    /\ \E k \in DOMAIN store.edges :
          /\ store.edges[k].root = legacy.project_id
          /\ store.edges[k].source = legacy.node_mappings[legacy_edge.source]
          /\ store.edges[k].target = legacy.node_mappings[legacy_edge.target]

CreatedEdges ==
    {legacy.edges[i].id : i \in {j \in DOMAIN legacy.edges : RelationshipCreated(legacy.edges[j])}}

\* C29: when a legacy import completes, the keys of node_mappings are the
\* legacy nodes whose Node was created and their number is imported_nodes,
\* the keys of edge_mappings are the legacy edges whose relationship was
\* created and imported_edges is the number of relationships created; at
\* every moment processed_nodes <= total_nodes and processed_edges <= total_edges.
C29_MappingsMatchWhatWasCreated ==
    Running =>
        /\ legacy.progress.processed_nodes <= legacy.progress.total_nodes
        /\ legacy.progress.processed_edges <= legacy.progress.total_edges
        /\ legacy.task = "returned" =>
              /\ DOMAIN legacy.node_mappings = CreatedNodes
              /\ Cardinality(DOMAIN legacy.node_mappings) = legacy.progress.processed_nodes
              /\ DOMAIN legacy.edge_mappings = CreatedEdges
              /\ legacy.progress.processed_edges
                    = Len(OfRoot(store.edges, legacy.project_id))

\* the store failed on a node: the run completed with the node in node_mappings
\* and not in the store
C29_MappedNodeNeverCreated ==
    /\ Running
    /\ legacy.task = "returned"
    /\ \E id \in DOMAIN legacy.node_mappings : id \notin CreatedNodes

\* what holds when the graph store never fails: the mappings and the counts
\* are those of what was created
C29_MappingsMatchWithoutStoreFailure ==
    (Running /\ legacy.failures = 0) => C29_MappingsMatchWhatWasCreated

\* C30: a legacy document the validate endpoint reports valid with nodes_count
\* n and edges_count m passes the parsing of the import endpoint, which sets
\* total_nodes = n and total_edges = m and, when the graph store does not
\* fail, reaches Completed; a document the import rejects is never reported valid.
C30_ValidDocumentIsImported ==
    (Running /\ validate_legacy_data(legacy.doc).valid /\ legacy.failures = 0) =>
        /\ legacy.task # "raised"
        /\ legacy.progress.percentage >= 20 =>
              /\ legacy.progress.total_nodes = validate_legacy_data(legacy.doc).nodes_count
              /\ legacy.progress.total_edges = validate_legacy_data(legacy.doc).edges_count

\* a document reported valid, with a warning for its nameless node, was
\* rejected by the import
C30_ValidDocumentRejected ==
    /\ Running
    /\ validate_legacy_data(legacy.doc).valid
    /\ \E w \in validate_legacy_data(legacy.doc).warnings : w.kind = "Node"
    /\ legacy.failures = 0
    /\ legacy.task = "raised"

\* what holds of the documents the schema accepts: the counts of the validate
\* endpoint are the totals of the import, which completes
C30_SchemaValidDocumentIsImported ==
    (Running /\ Validates(legacy.doc) /\ legacy.failures = 0) => C30_ValidDocumentIsImported

====
